---- MODULE Spec2Model ----
(***************************************************************************)
(* A model of the diagram engine of giotto-tda: the diagram validator      *)
(* (gtda/utils/validation.py), the vectorizers (gtda/diagrams/_metrics.py) *)
(* and the estimators that call them (gtda/diagrams/features.py).          *)
(*                                                                         *)
(* Numbers.  Births, deaths and grid values are integers.  A homology      *)
(* dimension value is <<"num", h>>, the number h/2 (so that a value that   *)
(* is not integer-valued can be written), or <<"inf", 0>>, numpy's inf.    *)
(* A float that is the result of a division is an exact fraction           *)
(* [k |-> "frac", n, d] in lowest terms, or NaN.                           *)
(*                                                                         *)
(* Arrays.  An ndarray is a record [shape, data]; data is indexed from 1   *)
(* where numpy indexes from 0.  Arrays live in heap, a sequence of arrays, *)
(* and are named by their address in it, so that "the same object" and     *)
(* "an equal copy" are different things, as they are in Python.            *)
(***************************************************************************)
EXTENDS Integers, Sequences, FiniteSets, Bags, TLC

VARIABLES
    comp,       \* the component a behaviour exercises
    pc,         \* the position of the call in progress
    heap,       \* the arrays that exist: address -> ndarray
    Xref,       \* the address of the caller's batch
    X0,         \* the value the caller's batch had when the call began
    ret,        \* what the call returned or raised
    diagrams,   \* the subdiagram batch handed to a vectorizer
    base,       \* that batch before any padding point was appended
    out,        \* the last vectorization computed, with its arguments
    self,       \* the attributes of the fitted estimator
    args,       \* the arguments of the call in progress, as it was given them
    pool        \* the tasks handed to Parallel and what each has returned

vars == <<comp, pc, heap, Xref, X0, ret, diagrams, base, out, self, args, pool>>

(***************************************************************************)
(* Bounds of the model.                                                    *)
(***************************************************************************)
\* A batch holds at most MaxCells points in all (n_samples * n_points).
MaxCells == 2

\* Deaths are drawn from 0..MaxVal; births and padding values are 0 or 1.
MaxVal == 2

\* At most MaxPad padding points are appended to every sample of a batch.
MaxPad == 1

\* Sampling grids have NBins values.
NBins == 3

\* n_layers is drawn from 1..MaxLayers.
MaxLayers == 3

(***************************************************************************)
(* Arithmetic helpers.                                                     *)
(***************************************************************************)
Abs(x) == IF x < 0 THEN -x ELSE x

Max2(a, b) == IF a >= b THEN a ELSE b

Min2(a, b) == IF a <= b THEN a ELSE b

None == [k |-> "none"]

RECURSIVE GCD(_, _)
GCD(a, b) == IF b = 0 THEN a ELSE GCD(b, a % b)

\* The ascending sequence s with x put in its place.
RECURSIVE Insert(_, _)
Insert(x, s) == IF Len(s) = 0 THEN <<x>>
                ELSE IF x <= Head(s) THEN <<x>> \o s
                ELSE <<Head(s)>> \o Insert(x, Tail(s))

\* The sequence s in ascending order.
RECURSIVE SortAsc(_)
SortAsc(s) == IF Len(s) = 0 THEN <<>>
              ELSE Insert(Head(s), SortAsc(Tail(s)))

\* The function f of domain 1..n as the tuple of its values, each of which
\* is then computed once, however often it is read.
Tuple(f) == <<>> \o f

Reverse(s) == Tuple([k \in 1..Len(s) |-> s[Len(s) + 1 - k]])

(***************************************************************************)
(* Floats that arise from divisions and logarithms: exact fractions, NaN,  *)
(* -inf, and the irrational numbers log(p) and p*log(p) of a fraction p,   *)
(* 0 < p < 1, kept as symbols.                                             *)
(***************************************************************************)
NaN == [k |-> "nan", n |-> 0, d |-> 1]

NegInf == [k |-> "ninf", n |-> 0, d |-> 1]

PosInf == [k |-> "inf", n |-> 0, d |-> 1]

\* The fraction n/d, d > 0, in lowest terms.
Frac(n, d) == LET g == GCD(Abs(n), d)
              IN [k |-> "frac", n |-> n \div g, d |-> d \div g]

Zero == Frac(0, 1)

\* a / b of two floats holding the integers a >= 0 and b >= 0.
NpDivide(a, b) == IF b = 0 THEN (IF a = 0 THEN NaN ELSE PosInf)
                  ELSE Frac(a, b)

\* np.log(x), x NaN or a fraction in [0, 1].
NpLog(x) == IF x.k = "nan" THEN NaN
            ELSE IF x.n = 0 THEN NegInf
            ELSE IF x.n = x.d THEN Zero
            ELSE [k |-> "log", n |-> x.n, d |-> x.d]

\* x * y, where y is np.log(x).
NpMultiply(x, y) ==
    IF x.k = "nan" \/ y.k = "nan" THEN NaN
    ELSE IF x.n = 0 /\ y.k = "ninf" THEN NaN
    ELSE IF y.k = "frac" THEN Frac(x.n * y.n, x.d * y.d)
    ELSE [k |-> "xlogx", n |-> x.n, d |-> x.d]

\* A faulty variant of nan_to_num: NaN is let through.
nan_kept(x) == x

\* np.nan_to_num(x): NaN becomes 0.
nan_to_num(x) == IF x.k = "nan" THEN Zero ELSE x

\* np.sum of a sequence of floats, each NaN, 0 or a symbol p*log(p): NaN if
\* one is NaN, else the bag of the symbols (adding 0 changes nothing).
RECURSIVE NpSum(_)
NpSum(s) ==
    IF Len(s) = 0 THEN [nan |-> FALSE, neg |-> FALSE, terms |-> EmptyBag]
    ELSE LET rest == NpSum(Tail(s))
             x == Head(s)
         IN IF x.k = "nan" THEN [rest EXCEPT !.nan = TRUE]
            ELSE IF x.k = "xlogx"
                 THEN [rest EXCEPT !.terms = @ (+) SetToBag({<<x.n, x.d>>})]
                 ELSE rest

\* The negation of a sum.
NpNegative(v) == [v EXCEPT !.neg = ~@]

IsZero(v) == ~v.nan /\ v.terms = EmptyBag

(***************************************************************************)
(* Homology dimension values, as floats of the third column.               *)
(***************************************************************************)
Inf == <<"inf", 0>>

Num(h) == <<"num", h>>

\* The dimension values the model draws: 0, 1, 1/2, -1 and inf.
DimValues == {Num(0), Num(2), Num(1), Num(-2), Inf}

\* Python's int(x) of a finite float: truncation toward zero.
PyInt(q) == IF q[2] >= 0 THEN Num(2 * (q[2] \div 2))
            ELSE Num(-(2 * ((-q[2]) \div 2)))

\* numpy's abs of a finite float.
NpAbs(q) == Num(Abs(q[2]))

\* The order sorted() puts floats in: by value, inf last.
DimLess(p, q) == IF p = Inf THEN FALSE
                 ELSE IF q = Inf THEN TRUE
                 ELSE p[2] < q[2]

\* The floats of S from the greatest to the least.
RECURSIVE SortedDescending(_)
SortedDescending(S) ==
    IF S = {} THEN <<>>
    ELSE LET m == CHOOSE x \in S : \A y \in S \ {x} : DimLess(y, x)
         IN <<m>> \o SortedDescending(S \ {m})

\* sorted(list(S)) of a set of floats.
RECURSIVE Sorted(_)
Sorted(S) == IF S = {} THEN <<>>
             ELSE LET m == CHOOSE x \in S : \A y \in S \ {x} : DimLess(x, y)
                  IN <<m>> \o Sorted(S \ {m})

(***************************************************************************)
(* check_diagram.                                                          *)
(***************************************************************************)
\* set(X[0, :, 2]): the dimension values of the first sample only.
FirstSampleDims(X) == {X.data[1][j][3] : j \in 1..X.shape[2]}

\* The body of the loop over homology_dimensions for one value: the raise
\* statement it reaches, or "none".
DimCheck(dim, homology_dimensions) ==
    IF dim = Inf
    THEN IF Len(homology_dimensions) # 1 THEN "inf_not_alone" ELSE "none"
    ELSE IF dim # PyInt(dim) THEN "not_integer"
         ELSE IF dim # NpAbs(dim) THEN "negative"
         ELSE "none"

\* The loop: the first raise reached, in sorted order.
RECURSIVE DimLoop(_, _)
DimLoop(i, homology_dimensions) ==
    IF i > Len(homology_dimensions) THEN "none"
    ELSE LET e == DimCheck(homology_dimensions[i], homology_dimensions)
         IN IF e # "none" THEN e ELSE DimLoop(i + 1, homology_dimensions)

\* A faulty variant of PointsAboveDiag: the comparison is strict.
PointsStrictlyAboveDiag(X) ==
    Cardinality({ij \in (1..X.shape[1]) \X (1..X.shape[2]) :
                    X.data[ij[1]][ij[2]][2] > X.data[ij[1]][ij[2]][1]})

\* np.sum(X[:, :, 1] >= X[:, :, 0])
PointsAboveDiag(X) ==
    Cardinality({ij \in (1..X.shape[1]) \X (1..X.shape[2]) :
                    X.data[ij[1]][ij[2]][2] >= X.data[ij[1]][ij[2]][1]})

\* The validation part of check_diagram: the raise statement reached, or
\* "none".
Validate(X) ==
    IF Len(X.shape) # 3 THEN "rank"
    ELSE IF X.shape[3] # 3 THEN "last_axis"
    ELSE LET homology_dimensions == Sorted(FirstSampleDims(X))
             e == DimLoop(1, homology_dimensions)
         IN IF e # "none" THEN e
            ELSE IF PointsAboveDiag(X) # X.shape[1] * X.shape[2]
                 THEN "below_diagonal"
                 ELSE "none"

\* A faulty variant of ReturnOf: copy is ignored and X itself is returned.
ReturnOfNoCopy(h, X, copy) == [heap |-> h, ref |-> X]

\* if copy: return np.copy(X) else: return X
ReturnOf(h, X, copy) ==
    IF copy THEN [heap |-> Append(h, h[X]), ref |-> Len(h) + 1]
    ELSE [heap |-> h, ref |-> X]

\* check_diagram(X, copy) on the store h, X an address: the store after the
\* call, and what the call raised or the address it returned.
check_diagram(h, X, copy) ==
    LET e == Validate(h[X])
    IN IF e # "none" THEN [heap |-> h, raised |-> e, ref |-> 0]
       ELSE [heap |-> ReturnOf(h, X, copy).heap, raised |-> "none",
             ref |-> ReturnOf(h, X, copy).ref]

(***************************************************************************)
(* The inputs the model draws.                                             *)
(***************************************************************************)
\* The shapes (n_samples, n_points) of the batches drawn.
Shapes == {nm \in (1..MaxCells) \X (1..MaxCells) : nm[1] * nm[2] <= MaxCells}

\* (birth, death) of a point: off the diagonal, on it, below it.
BirthDeath == {<<0, 1>>, <<1, 1>>, <<1, 0>>}

Points3 == {<<bd[1], bd[2], q>> : bd \in BirthDeath, q \in DimValues}

\* Arrays of rank 3 with a last axis of 3.
Batches3 ==
    UNION {{[shape |-> <<nm[1], nm[2], 3>>, data |-> d] :
               d \in [1..nm[1] -> [1..nm[2] -> Points3]]} : nm \in Shapes}

\* Arrays of another shape: rank 2, and rank 3 with a last axis of 2.
Rank2Array == [shape |-> <<1, 2>>, data |-> <<<<0, 1>>>>]

LastAxis2Array ==
    [shape |-> <<2, 1, 2>>, data |-> <<<< <<0, 1>> >>, << <<0, 1>> >>>>]

(***************************************************************************)
(* Component "check": one call of check_diagram.                           *)
(***************************************************************************)
InitCheck ==
    /\ comp = "check"
    /\ pc = "call"
    /\ \/ \E X \in Batches3 : heap = <<X>> /\ X0 = X
       \/ heap = <<Rank2Array>> /\ X0 = Rank2Array
       \/ heap = <<LastAxis2Array>> /\ X0 = LastAxis2Array
    /\ Xref = 1
    /\ ret = None
    /\ diagrams = None /\ base = None /\ out = None /\ self = None /\ args = None
    /\ pool = None

CheckDiagram ==
    /\ comp = "check"
    /\ pc = "call"
    /\ \E copy \in BOOLEAN :
          LET r == check_diagram(heap, Xref, copy)
          IN /\ heap' = r.heap
             /\ ret' = [k |-> "result", raised |-> r.raised, ref |-> r.ref,
                        copy |-> copy]
    /\ pc' = "done"
    /\ UNCHANGED <<comp, Xref, X0, diagrams, base, out, self, args, pool>>

NextCheck == CheckDiagram

SpecCheck == InitCheck /\ [][NextCheck]_vars

(***************************************************************************)
(* Claims about check_diagram.                                             *)
(***************************************************************************)
\* The call of check_diagram is over and its input had a valid shape.
CheckedRank3 ==
    /\ comp = "check"
    /\ pc = "done"
    /\ Len(X0.shape) = 3
    /\ X0.shape[3] = 3

Accepted == ret.raised = "none"

\* The dimension values of all points of all samples.
AllDims(X) ==
    {X.data[ij[1]][ij[2]][3] : ij \in (1..X.shape[1]) \X (1..X.shape[2])}

\* A finite dimension value that is negative or not integer-valued.
BadFiniteDim(q) == q # Inf /\ (q[2] < 0 \/ q[2] % 2 # 0)

\* All dimension values are non-negative integers, or inf is the only one.
DimsValid(X) ==
    \/ AllDims(X) = {Inf}
    \/ \A q \in AllDims(X) : q # Inf /\ ~BadFiniteDim(q)

SomePointBelowDiag(X) ==
    \E ij \in (1..X.shape[1]) \X (1..X.shape[2]) :
        X.data[ij[1]][ij[2]][2] < X.data[ij[1]][ij[2]][1]

\* C1: check_diagram raises for every batch of valid shape in which some
\* point of some sample, the first or not, has a finite dimension value that
\* is negative or not integer-valued; a batch is accepted only if all its
\* dimension values are non-negative integers or the lone inf.
C1_BadDimensionAnywhereRaises ==
    CheckedRank3 =>
        /\ (\E q \in AllDims(X0) : BadFiniteDim(q)) => ~Accepted
        /\ Accepted => DimsValid(X0)

\* C2: check_diagram accepts a batch that contains inf (and is otherwise
\* valid) if and only if inf is the only dimension value anywhere in the
\* batch.
C2_InfAcceptedIffAlone ==
    (CheckedRank3 /\ Inf \in AllDims(X0) /\ ~SomePointBelowDiag(X0)) =>
        (Accepted <=> AllDims(X0) = {Inf})

\* C3: given a valid shape and valid dimension values, check_diagram raises
\* if and only if some point of some sample has death < birth (a point with
\* birth = death is accepted), and on acceptance the returned batch has
\* exactly the values of the input.
C3_RaisesIffBelowDiagonal ==
    (CheckedRank3 /\ DimsValid(X0)) =>
        /\ ~Accepted <=> SomePointBelowDiag(X0)
        /\ ~Accepted => ret.raised = "below_diagonal"
        /\ Accepted => heap[ret.ref] = X0 /\ heap[Xref] = X0

\* A batch with a padding point and no point below the diagonal was accepted
\* and returned as a copy.
C3_Witness ==
    /\ CheckedRank3 /\ DimsValid(X0) /\ Accepted
    /\ ret.copy /\ ret.ref # Xref
    /\ \E ij \in (1..X0.shape[1]) \X (1..X0.shape[2]) :
          X0.data[ij[1]][ij[2]][2] = X0.data[ij[1]][ij[2]][1]

(***************************************************************************)
(* The vectorizers of _metrics.py and the entropy of features.py.  Their   *)
(* argument diagrams is a subdiagram batch [shape |-> <<n_samples,         *)
(* n_points, 2>>, data]: data[i][j] = <<birth, death>>.  sampling is the   *)
(* sequence of the grid's values.                                          *)
(***************************************************************************)
\* A faulty variant of Born: birth is exclusive.
BornStrictly(t, birth) == t > birth

\* born = sampling >= diagrams[:, :, 0], for one grid value and one point.
Born(t, birth) == t >= birth

\* A faulty variant of NotDead: death is inclusive.
NotDeadInclusive(t, death) == t <= death

\* not_dead = sampling < diagrams[:, :, 1], for one grid value and one point.
NotDead(t, death) == t < death

betti_curves(dgms, sampling) ==
    LET n == dgms.shape[1]
        m == dgms.shape[2]
        nb == Len(sampling)
        \* alive[k][i][j], of shape (n_bins, n_samples, n_points)
        alive == [k \in 1..nb |-> [i \in 1..n |-> [j \in 1..m |->
                     /\ Born(sampling[k], dgms.data[i][j][1])
                     /\ NotDead(sampling[k], dgms.data[i][j][2])]]]
        \* np.sum(alive, axis=2), of shape (n_bins, n_samples)
        summed == [k \in 1..nb |-> [i \in 1..n |->
                      Cardinality({j \in 1..m : alive[k][i][j]})]]
    IN \* .T
       [shape |-> <<n, nb>>,
        data |-> [i \in 1..n |-> [k \in 1..nb |-> summed[k][i]]]]

\* fibers.partition(top_pos) of one fiber: its last Len(top_pos) entries are
\* its largest, ascending; numpy leaves the order of the entries before
\* them open, and front names the one taken.
Partition(fiber, ntop, front) ==
    LET sorted == SortAsc(fiber)
        cut == Len(fiber) - ntop
        head == SubSeq(sorted, 1, cut)
    IN (IF front = "ascending" THEN head ELSE Reverse(head))
       \o SubSeq(sorted, cut + 1, Len(fiber))

\* A faulty variant of TopLayers: the np.flip is left out.
TopLayersAscending(fiber, n_layers) ==
    SubSeq(fiber, Max2(1, Len(fiber) - n_layers + 1), Len(fiber))

\* np.flip(fibers[:, :, -n_layers:], axis=2) of one fiber.
TopLayers(fiber, n_layers) ==
    Reverse(SubSeq(fiber, Max2(1, Len(fiber) - n_layers + 1), Len(fiber)))

\* fibers[k][i], for the grid value t = sampling[k] and sample i: the tent
\* values np.maximum(-np.abs(sampling - midpoints) + heights, 0) of the
\* sample's points.  Midpoints, heights and so the tent values are kept
\* doubled, which makes them integers.
Fiber(dgms, i, t) ==
    Tuple([j \in 1..dgms.shape[2] |->
        LET midpoint2 == dgms.data[i][j][2] + dgms.data[i][j][1]
            height2 == dgms.data[i][j][2] - dgms.data[i][j][1]
        IN Max2(-Abs(2 * t - midpoint2) + height2, 0)])

\* np.transpose(fibers, (1, 2, 0)) of an array of shape (nb, n, kept), then
\* np.pad with npad zero layers along the new axis 1.
TransposeAndPad(fibers, n, kept, nb, npad) ==
    [shape |-> <<n, kept + npad, nb>>,
     data |-> [i \in 1..n |-> [l \in 1..(kept + npad) |-> [k \in 1..nb |->
                  IF l <= kept THEN fibers[k][i][l] ELSE 0]]]]

\* landscapes; the result holds the doubled tent values.
landscapes(dgms, sampling, n_layers, front) ==
    LET n == dgms.shape[1]
        n_points == dgms.shape[2]
        nb == Len(sampling)
        ntop == Min2(n_layers, n_points)
        \* the length of the slice fibers[:, :, -n_layers:]
        kept == Min2(n_layers, n_points)
        npad == Max2(0, n_layers - n_points)
    IN TransposeAndPad(
           Tuple([k \in 1..nb |-> Tuple([i \in 1..n |->
               TopLayers(Partition(Fiber(dgms, i, sampling[k]), ntop, front),
                         n_layers)])]),
           n, kept, nb, npad)

\* PersistenceEntropy._persistence_entropy
persistence_entropy(X) ==
    LET n == X.shape[1]
        m == X.shape[2]
        X_lifespan == [i \in 1..n |-> [j \in 1..m |->
                          X.data[i][j][2] - X.data[i][j][1]]]
        total == [i \in 1..n |->
                     IF m = 0 THEN 0
                     ELSE LET RECURSIVE S(_)
                              S(j) == IF j = 0 THEN 0
                                      ELSE X_lifespan[i][j] + S(j - 1)
                          IN S(m)]
        X_normalized == [i \in 1..n |-> [j \in 1..m |->
                            NpDivide(X_lifespan[i][j], total[i])]]
        plogp == [i \in 1..n |-> [j \in 1..m |->
                     nan_to_num(NpMultiply(X_normalized[i][j],
                                           NpLog(X_normalized[i][j])))]]
    IN [shape |-> <<n, 1>>,
        data |-> [i \in 1..n |-> <<NpNegative(NpSum(plogp[i]))>>]]

(***************************************************************************)
(* The arguments the model draws for the vectorizers.                      *)
(***************************************************************************)
\* (birth, death) of a point of a valid diagram: death >= birth.
ValidPoints == {bd \in (0..1) \X (0..MaxVal) : bd[2] >= bd[1]}

SubdiagramBatches ==
    UNION {{[shape |-> <<nm[1], nm[2], 2>>, data |-> d] :
               d \in [1..nm[1] -> [1..nm[2] -> ValidPoints]]} : nm \in Shapes}

\* Evenly spaced grids of NBins values.
Grids == {[k \in 1..NBins |-> s0 + (k - 1) * st] : s0 \in 0..1, st \in 1..2}

\* The batch dgms with the diagonal point (v, v) appended to every sample.
WithPadding(dgms, v) ==
    [shape |-> <<dgms.shape[1], dgms.shape[2] + 1, 2>>,
     data |-> [i \in 1..dgms.shape[1] |-> Append(dgms.data[i], <<v, v>>)]]

NPadded == diagrams.shape[2] - base.shape[2]

(***************************************************************************)
(* Component "curves": padding points are appended to a subdiagram batch,  *)
(* then one of betti_curves, landscapes, _persistence_entropy is applied.  *)
(***************************************************************************)
InitVectorizer(c) ==
    /\ comp = c
    /\ pc = "args"
    /\ diagrams \in SubdiagramBatches
    /\ base = diagrams
    /\ out = None
    /\ heap = <<>> /\ Xref = 0 /\ X0 = None /\ ret = None /\ self = None /\ args = None
    /\ pool = None

InitCurves == InitVectorizer("curves")

AppendPadding ==
    /\ pc = "args"
    /\ NPadded < MaxPad
    /\ \E v \in 0..1 : diagrams' = WithPadding(diagrams, v)
    /\ UNCHANGED <<comp, pc, heap, Xref, X0, ret, base, out, self, args, pool>>

BettiCurves ==
    /\ comp = "curves"
    /\ pc = "args"
    /\ \E sampling \in Grids :
          out' = [op |-> "betti_curves", sampling |-> sampling,
                  n_layers |-> 0,
                  value |-> betti_curves(diagrams, sampling)]
    /\ pc' = "done"
    /\ UNCHANGED <<comp, heap, Xref, X0, ret, diagrams, base, self, args, pool>>

Landscapes ==
    /\ comp = "curves"
    /\ pc = "args"
    /\ \E sampling \in Grids, n_layers \in 1..MaxLayers,
          front \in {"ascending", "descending"} :
          out' = [op |-> "landscapes", sampling |-> sampling,
                  n_layers |-> n_layers,
                  value |-> landscapes(diagrams, sampling, n_layers, front)]
    /\ pc' = "done"
    /\ UNCHANGED <<comp, heap, Xref, X0, ret, diagrams, base, self, args, pool>>

PersistenceEntropy ==
    /\ comp = "curves"
    /\ pc = "args"
    /\ out' = [op |-> "persistence_entropy", sampling |-> <<>>,
               n_layers |-> 0, value |-> persistence_entropy(diagrams)]
    /\ pc' = "done"
    /\ UNCHANGED <<comp, heap, Xref, X0, ret, diagrams, base, self, args, pool>>

NextCurves ==
    \/ AppendPadding
    \/ BettiCurves
    \/ Landscapes
    \/ PersistenceEntropy

SpecCurves == InitCurves /\ [][NextCurves]_vars

(***************************************************************************)
(* Claims about betti_curves, landscapes and the persistence entropy.      *)
(***************************************************************************)
Samples == 1..diagrams.shape[1]

PointsOf(dgms) == 1..dgms.shape[2]

\* C5: betti_curves returns an array of shape (n_samples, n_bins) that holds,
\* for every sample s and grid value t, the number of points of s with
\* birth <= t < death; on the grid {0, 1, 2} the diagram {(0, 1)} gives
\* [1, 0, 0] and the diagram {(0, 2)} gives [1, 1, 0].
C5_BettiCountsAlive ==
    (comp = "curves" /\ pc = "done" /\ out.op = "betti_curves") =>
        /\ out.value.shape = <<diagrams.shape[1], Len(out.sampling)>>
        /\ DOMAIN out.value.data = Samples
        /\ \A i \in Samples :
              /\ DOMAIN out.value.data[i] = 1..Len(out.sampling)
              /\ \A k \in 1..Len(out.sampling) :
                    out.value.data[i][k] =
                        Cardinality({j \in PointsOf(diagrams) :
                            /\ diagrams.data[i][j][1] <= out.sampling[k]
                            /\ out.sampling[k] < diagrams.data[i][j][2]})
              /\ (out.sampling = <<0, 1, 2>> /\ diagrams.data[i] = << <<0, 1>> >>)
                     => out.value.data[i] = <<1, 0, 0>>
              /\ (out.sampling = <<0, 1, 2>> /\ diagrams.data[i] = << <<0, 2>> >>)
                     => out.value.data[i] = <<1, 1, 0>>

\* The scenario of the specification: samples {(0, 1)} and {(0, 2)} on the
\* grid {0, 1, 2}.
C5_Witness ==
    /\ comp = "curves" /\ pc = "done" /\ out.op = "betti_curves"
    /\ out.sampling = <<0, 1, 2>>
    /\ diagrams.data = << << <<0, 1>> >>, << <<0, 2>> >> >>
    /\ out.value.data = << <<1, 0, 0>>, <<1, 1, 0>> >>

\* C6: appending diagonal points (birth = death) to a diagram leaves the
\* outputs of betti_curves, landscapes and _persistence_entropy unchanged:
\* what was computed on the padded batch is what the same function gives on
\* the batch without the padding, for the same grid and n_layers.
C6_PaddingInertCurves ==
    (comp = "curves" /\ pc = "done") =>
        /\ out.op = "betti_curves" =>
              out.value = betti_curves(base, out.sampling)
        /\ out.op = "landscapes" =>
              out.value = landscapes(base, out.sampling, out.n_layers,
                                     "ascending")
        /\ out.op = "persistence_entropy" =>
              out.value = persistence_entropy(base)

\* A landscape with more than one layer was computed on a batch with padding
\* appended to a sample that has a point off the diagonal.
C6_Witness ==
    /\ comp = "curves" /\ pc = "done" /\ out.op = "landscapes"
    /\ NPadded > 0 /\ out.n_layers > 1
    /\ \E i \in Samples, j \in PointsOf(base) :
          base.data[i][j][2] > base.data[i][j][1]

\* The doubled tent function 2 * max(h - |t - m|, 0) of the point (b, d).
Tent2(bd, t) ==
    LET v == (bd[2] - bd[1]) - Abs(2 * t - (bd[1] + bd[2]))
    IN IF v > 0 THEN v ELSE 0

\* x is the l-th largest of the tent values of sample i at t.
IsLthLargest(x, l, i, t) ==
    /\ \E j \in PointsOf(diagrams) : x = Tent2(diagrams.data[i][j], t)
    /\ Cardinality({j \in PointsOf(diagrams) :
                       Tent2(diagrams.data[i][j], t) > x}) < l
    /\ Cardinality({j \in PointsOf(diagrams) :
                       Tent2(diagrams.data[i][j], t) >= x}) >= l

\* C8: landscapes returns an array of shape (n_samples, n_layers, n_bins); at
\* every grid value layer l holds the l-th largest tent value of the sample's
\* points, layers are non-increasing, and every layer beyond n_points is
\* zero, whether n_layers <= n_points or n_layers > n_points.
C8_LandscapeLayers ==
    (comp = "curves" /\ pc = "done" /\ out.op = "landscapes") =>
        /\ out.value.shape =
              <<diagrams.shape[1], out.n_layers, Len(out.sampling)>>
        /\ DOMAIN out.value.data = Samples
        /\ \A i \in Samples :
              /\ DOMAIN out.value.data[i] = 1..out.n_layers
              /\ \A l \in 1..out.n_layers :
                    /\ DOMAIN out.value.data[i][l] = 1..Len(out.sampling)
                    /\ \A k \in 1..Len(out.sampling) :
                          /\ l <= diagrams.shape[2] =>
                                IsLthLargest(out.value.data[i][l][k], l, i,
                                             out.sampling[k])
                          /\ l > diagrams.shape[2] =>
                                out.value.data[i][l][k] = 0
                          /\ l > 1 => out.value.data[i][l][k]
                                          <= out.value.data[i][l - 1][k]

\* More layers than points were asked for, of a sample with two points whose
\* tents differ at some grid value, the lower one coming first in the array.
C8_Witness ==
    /\ comp = "curves" /\ pc = "done" /\ out.op = "landscapes"
    /\ diagrams.shape[2] >= 2
    /\ out.n_layers > diagrams.shape[2]
    /\ \E i \in Samples, k \in 1..Len(out.sampling) :
          /\ Tent2(diagrams.data[i][1], out.sampling[k])
                 < Tent2(diagrams.data[i][2], out.sampling[k])
          /\ out.value.data[i][1][k] > out.value.data[i][2][k]

Lifespan(i, j) == diagrams.data[i][j][2] - diagrams.data[i][j][1]

TotalLifespan(i) ==
    LET RECURSIVE S(_)
        S(j) == IF j = 0 THEN 0 ELSE Lifespan(i, j) + S(j - 1)
    IN S(diagrams.shape[2])

\* The points of sample i whose p * log(p) is not zero: 0 < p < 1.
Contributing(i) ==
    {j \in PointsOf(diagrams) :
        Lifespan(i, j) > 0 /\ Lifespan(i, j) < TotalLifespan(i)}

\* p = lifespan / total lifespan, in lowest terms.
Mass(i, j) == LET g == GCD(Lifespan(i, j), TotalLifespan(i))
              IN <<Lifespan(i, j) \div g, TotalLifespan(i) \div g>>

\* C9: the persistence entropy of a sample is the negative sum of p * log(p)
\* over its points, p = lifespan / total lifespan, a point of zero lifespan
\* contributing 0; it is never NaN, it is 0 for a sample with one
\* non-trivial point, and it is 0 for a sample of padding points only.
C9_EntropyNeverNaN ==
    (comp = "curves" /\ pc = "done" /\ out.op = "persistence_entropy") =>
        /\ out.value.shape = <<diagrams.shape[1], 1>>
        /\ \A i \in Samples :
              LET v == out.value.data[i][1]
              IN /\ ~v.nan
                 /\ v.neg
                 /\ v.terms = [p \in {Mass(i, j) : j \in Contributing(i)} |->
                                  Cardinality({j \in Contributing(i) :
                                                  Mass(i, j) = p})]
                 /\ Cardinality({j \in PointsOf(diagrams) :
                                    Lifespan(i, j) > 0}) <= 1 => IsZero(v)

\* The entropy was computed of a batch with a sample of padding points only
\* and a sample with a point off the diagonal.
C9_Witness ==
    /\ comp = "curves" /\ pc = "done" /\ out.op = "persistence_entropy"
    /\ \E i \in Samples : TotalLifespan(i) = 0 /\ IsZero(out.value.data[i][1])
    /\ \E i \in Samples : TotalLifespan(i) > 0 /\ IsZero(out.value.data[i][1])

(***************************************************************************)
(* Rasters.  A raster is an n x n matrix of exact fractions; image[i][j]   *)
(* is the pixel with birth index i - 1 and death (or persistence) index    *)
(* j - 1.                                                                  *)
(***************************************************************************)
\* a - b and a * b of two fractions.
FracSub(a, b) == LET g == GCD(a.d, b.d)
                 IN Frac(a.n * (b.d \div g) - b.n * (a.d \div g),
                         (a.d \div g) * b.d)

FracMul(a, b) == Frac(a.n * b.n, a.d * b.d)

\* np.zeros((n, n))
Zeros(n) == Tuple([i \in 1..n |-> Tuple([j \in 1..n |-> Zero])])

\* _sample_image(image, sampled_diag): every point of sampled_diag is a unit
\* mass at its pixel; the array image after the call.
_sample_image(image, sampled_diag) ==
    Tuple([i \in 1..Len(image) |-> Tuple([j \in 1..Len(image) |->
        LET c == Cardinality({p \in 1..Len(sampled_diag) :
                                 sampled_diag[p] = <<i - 1, j - 1>>})
        IN IF c = 0 THEN image[i][j] ELSE Frac(c, 1)])])

\* The values of sigma the model draws.
Sigmas == {1, 2}

\* The weights of the Gaussian kernel of gaussian_filter at the offsets
\* 0, 1, ..., 4 * sigma (truncate = 4), in thousandths, before normalisation.
KernelWeights(sigma) ==
    IF sigma = 1 THEN <<1000, 607, 135, 11, 0>>
    ELSE <<1000, 882, 607, 325, 135, 44, 11, 2, 0>>

\* mode="reflect": the index, from 0, that position i of a line of n values
\* extended by reflection about its edges reads.
Reflect(i, n) == LET p == i % (2 * n)
                 IN IF p < n THEN p ELSE 2 * n - 1 - p

\* The sum over the offsets o, o + 1, ..., radius of w[|o|] times the value
\* of the reflected line at position j + o.
RECURSIVE Correlate(_, _, _, _)
Correlate(line, w, j, o) ==
    IF o > Len(w) - 1 THEN 0
    ELSE w[Abs(o) + 1] * line[Reflect(j + o, Len(line)) + 1]
         + Correlate(line, w, j, o + 1)

\* gaussian_filter(image, sigma, mode="reflect") of a raster of integers: a
\* new array, the kernel applied along axis 0 and then along axis 1.
gaussian_filter(image, sigma) ==
    LET w == KernelWeights(sigma)
        n == Len(image)
        r == Len(w) - 1
        total == Correlate([k \in 1..n |-> 1], w, 0, -r)
        axis0 == [i \in 1..n |-> [j \in 1..n |->
                     Correlate([k \in 1..n |-> image[k][j].n], w, i - 1, -r)]]
        axis1 == [i \in 1..n |-> [j \in 1..n |->
                     Correlate(axis0[i], w, j - 1, -r)]]
    IN [i \in 1..n |-> [j \in 1..n |-> Frac(axis1[i][j], total * total)]]

\* _heat(heat, sampled_diag, sigma): the array heat after the call.  The
\* first statement writes the point counts into heat; the second binds the
\* new array gaussian_filter returns to the local name heat, which leaves
\* the array itself as the first statement left it.
_heat(heat, sampled_diag, sigma) ==
    LET sampled == _sample_image(heat, sampled_diag)
        local == gaussian_filter(sampled, sigma)
    IN sampled

\* np.transpose and np.rot90(k=1) of one raster.
Transpose(m) == [i \in 1..Len(m) |-> [j \in 1..Len(m) |-> m[j][i]]]

Rot90(m) == [i \in 1..Len(m) |-> [j \in 1..Len(m) |-> m[j][Len(m) + 1 - i]]]

\* The value v set to the range [lo, hi].
Clip(v, lo, hi) == IF v < lo THEN lo ELSE IF v > hi THEN hi ELSE v

(***************************************************************************)
(* heats.  sampling is an array of shape (n_bins, 1), step_size a number.  *)
(***************************************************************************)
\* The argument of heats after the two assignments that set the values
\* outside of the sampling range to the range, in place.
HeatClipped(dgms, sampling) ==
    [dgms EXCEPT !.data =
        Tuple([i \in 1..dgms.shape[1] |-> Tuple([p \in 1..dgms.shape[2] |->
            <<Clip(dgms.data[i][p][1], sampling[1][1],
                   sampling[Len(sampling)][1]),
              Clip(dgms.data[i][p][2], sampling[1][1],
                   sampling[Len(sampling)][1])>>])])]

\* np.array((diagrams - sampling[0, 0]) / step_size, dtype=int): a new array.
HeatPixels(dgms, sampling, step_size) ==
    LET c == HeatClipped(dgms, sampling)
    IN Tuple([i \in 1..dgms.shape[1] |-> Tuple([p \in 1..dgms.shape[2] |->
           <<(c.data[i][p][1] - sampling[1][1]) \div step_size,
             (c.data[i][p][2] - sampling[1][1]) \div step_size>>])])

\* The raster without the subtraction of its transpose.
WithoutTranspose(raster) == raster

\* heats_ - np.transpose(heats_, (0, 2, 1)) for one raster.
MinusTranspose(raster) ==
    [r \in 1..Len(raster) |->
        [c \in 1..Len(raster) |->
            FracSub(raster[r][c], Transpose(raster)[r][c])]]

\* heats_ - np.transpose(heats_, (0, 2, 1)), then np.rot90.
HeatsFrom(heats_) ==
    [shape |-> <<Len(heats_), Len(heats_[1]), Len(heats_[1])>>,
     data |-> [i \in 1..Len(heats_) |-> Rot90(MinusTranspose(heats_[i]))]]

\* heats(diagrams, sampling, step_size, sigma): the array returned, and the
\* array passed as diagrams as the call leaves it.
heats(dgms, sampling, step_size, sigma) ==
    [diagrams |-> HeatClipped(dgms, sampling),
     value |-> HeatsFrom(Tuple([i \in 1..dgms.shape[1] |->
                  _heat(Zeros(Len(sampling)),
                        HeatPixels(dgms, sampling, step_size)[i], sigma)]))]

(***************************************************************************)
(* persistence_images.  sampling is an array of shape (n_bins, 2), of      *)
(* birth and persistence values; step_size has a value for each axis.      *)
(***************************************************************************)
\* The argument of persistence_images after the statements that write to it:
\* (birth, death) becomes (birth, persistence), then each of the two axes is
\* set to the sampling range and converted into pixel, all in place.
ImagePixels(dgms, sampling, step_size) ==
    [dgms EXCEPT !.data =
        Tuple([i \in 1..dgms.shape[1] |-> Tuple([p \in 1..dgms.shape[2] |->
            LET birth == dgms.data[i][p][1]
                persistence == dgms.data[i][p][2] - dgms.data[i][p][1]
                last == Len(sampling)
            IN <<(Clip(birth, sampling[1][1], sampling[last][1])
                     - sampling[1][1]) \div step_size[1],
                 (Clip(persistence, sampling[1][2], sampling[last][2])
                     - sampling[1][2]) \div step_size[2]>>])])]

\* np.max(weights)
NpMax(weights) ==
    CHOOSE x \in {weights[k] : k \in 1..Len(weights)} :
        \A k \in 1..Len(weights) : weights[k] <= x

\* persistence_images_ *= weights / np.max(weights), then np.rot90.
ImagesFrom(images_, weights) ==
    [shape |-> <<Len(images_), Len(images_[1]), Len(images_[1])>>,
     data |-> [i \in 1..Len(images_) |->
                  Rot90([r \in 1..Len(images_[i]) |->
                            [c \in 1..Len(images_[i]) |->
                                FracMul(images_[i][r][c],
                                        NpDivide(weights[c],
                                                 NpMax(weights)))]])]]

\* persistence_images(diagrams, sampling, step_size, weights, sigma): the
\* array returned, and the array passed as diagrams as the call leaves it.
persistence_images(dgms, sampling, step_size, weights, sigma) ==
    [diagrams |-> ImagePixels(dgms, sampling, step_size),
     value |-> ImagesFrom(Tuple([i \in 1..dgms.shape[1] |->
                  _heat(Zeros(Len(sampling)),
                        ImagePixels(dgms, sampling, step_size).data[i],
                        sigma)]), weights)]

(***************************************************************************)
(* The grids and weights the model draws for the rasters.                  *)
(***************************************************************************)
\* Samplings of heats: NBins evenly spaced values from 0 or 1.
HeatSamplings ==
    {[k \in 1..NBins |-> <<s0 + (k - 1) * st>>] : s0 \in 0..1, st \in 1..2}

\* The step between two values of a grid.
StepOf(sampling, axis) == sampling[2][axis] - sampling[1][axis]

\* Samplings of persistence_images: a birth grid and a persistence grid.
ImageSamplings ==
    {[k \in 1..NBins |-> <<b0 + (k - 1), p0 + (k - 1) * st>>] :
        b0 \in 0..1, p0 \in 0..1, st \in 1..2}

\* The weights of the persistence values of a sampling under non-decreasing
\* weight functions: the default one (p -> p), and those that are 0 below
\* the c-th grid value and 1 from it on (the constant 1 for c = 1).
WeightProfiles(sampling) ==
    {[k \in 1..NBins |-> sampling[k][2]]}
        \cup {[k \in 1..NBins |-> IF k >= c THEN 1 ELSE 0] : c \in 1..NBins}

(***************************************************************************)
(* Component "images": padding points are appended to a subdiagram batch,  *)
(* then one of heats, persistence_images is applied to it.                 *)
(***************************************************************************)
InitImages == InitVectorizer("images")

Heats ==
    /\ comp = "images"
    /\ pc = "args"
    /\ \E sampling \in HeatSamplings, sigma \in Sigmas :
          LET r == heats(diagrams, sampling, StepOf(sampling, 1), sigma)
          IN /\ out' = [op |-> "heats", diagrams |-> diagrams,
                        sampling |-> sampling,
                        step_size |-> <<StepOf(sampling, 1)>>,
                        weights |-> <<>>, sigma |-> sigma,
                        value |-> r.value]
             /\ diagrams' = r.diagrams
    /\ pc' = "done"
    /\ UNCHANGED <<comp, heap, Xref, X0, ret, base, self, args, pool>>

PersistenceImages ==
    /\ comp = "images"
    /\ pc = "args"
    /\ \E sampling \in ImageSamplings, sigma \in Sigmas :
          \E weights \in WeightProfiles(sampling) :
             LET step_size == <<StepOf(sampling, 1), StepOf(sampling, 2)>>
                 r == persistence_images(diagrams, sampling, step_size,
                                         weights, sigma)
             IN /\ out' = [op |-> "persistence_images",
                           diagrams |-> diagrams, sampling |-> sampling,
                           step_size |-> step_size, weights |-> weights,
                           sigma |-> sigma, value |-> r.value]
                /\ diagrams' = r.diagrams
    /\ pc' = "done"
    /\ UNCHANGED <<comp, heap, Xref, X0, ret, base, self, args, pool>>

NextImages ==
    \/ AppendPadding
    \/ Heats
    \/ PersistenceImages

SpecImages == InitImages /\ [][NextImages]_vars

(***************************************************************************)
(* Claims about heats and persistence_images.                              *)
(***************************************************************************)
\* C7: appending diagonal points to a diagram does not change the array
\* persistence_images returns, for every grid, sigma and weight profile: the
\* array computed from the padded batch is the one computed from the batch
\* without its padding points.
C7_PaddingInertImages ==
    (comp = "images" /\ pc = "done" /\ out.op = "persistence_images") =>
        out.value = persistence_images(base, out.sampling, out.step_size,
                                       out.weights, out.sigma).value

\* The rasters of the call recorded in out, each convolved by
\* gaussian_filter with the sigma of the call.
ConvolvedRasters ==
    LET pixels == IF out.op = "heats"
                  THEN HeatPixels(out.diagrams, out.sampling,
                                  out.step_size[1])
                  ELSE ImagePixels(out.diagrams, out.sampling,
                                   out.step_size).data
    IN [i \in 1..out.diagrams.shape[1] |->
           gaussian_filter(_sample_image(Zeros(Len(out.sampling)), pixels[i]),
                           out.sigma)]

\* C10: the array heats and persistence_images return is made from the
\* Gaussian-convolved rasters: it is the antisymmetrised (heats) or weighted
\* (persistence_images) and rotated result of gaussian_filter applied to the
\* point-count image of each sample.
C10_OutputIsConvolved ==
    (comp = "images" /\ pc = "done") =>
        out.value = IF out.op = "heats" THEN HeatsFrom(ConvolvedRasters)
                    ELSE ImagesFrom(ConvolvedRasters, out.weights)

(***************************************************************************)
(* HeatKernel.transform and PersistenceImage.transform.                    *)
(***************************************************************************)
\* The columns of the batch X that hold the dimension dim, from column j on.
RECURSIVE ColumnsOf(_, _, _)
ColumnsOf(X, dim, j) ==
    IF j > X.shape[2] THEN <<>>
    ELSE (IF X.data[1][j][3] = dim THEN <<j>> ELSE <<>>)
         \o ColumnsOf(X, dim, j + 1)

\* _subdiagrams(X, [dim], remove_dim=True): the births and deaths of the
\* points of dimension dim of every sample.
_subdiagrams(X, dim) ==
    LET cols == ColumnsOf(X, dim, 1)
    IN [shape |-> <<X.shape[1], Len(cols), 2>>,
        data |-> Tuple([i \in 1..X.shape[1] |-> Tuple([p \in 1..Len(cols) |->
                     <<X.data[i][cols[p]][1], X.data[i][cols[p]][2]>>])])]

\* The batch X once the subdiagram of dimension dim, a view of X, holds the
\* values of sub.
WrittenThrough(X, dim, sub) ==
    [X EXCEPT !.data =
        [i \in 1..X.shape[1] |-> [j \in 1..X.shape[2] |->
            IF X.data[1][j][3] # dim THEN X.data[i][j]
            ELSE LET p == Cardinality({c \in 1..j : X.data[1][c][3] = dim})
                 IN <<sub.data[i][p][1], sub.data[i][p][2], X.data[i][j][3]>>]]]

\* The call one task of transform makes for the dimension dim.
TaskOf(est, sub, dim) ==
    IF est.kind = "HeatKernel"
    THEN heats(sub, est._samplings[dim], est._step_size[dim][1], est.sigma)
    ELSE persistence_images(sub, est._samplings[dim], est._step_size[dim],
                            est.weights_[dim], est.sigma)

\* The tasks of the dimensions est.homology_dimensions_[k], [k + 1], ..., run
\* one after the other in the calling process on the batch at address X: the
\* store they leave and the list of the arrays they return.  A subdiagram is
\* a view of the batch (view) or a copy of a part of it.
RECURSIVE RunTasks(_, _, _, _, _)
RunTasks(est, h, X, k, view) ==
    IF k > Len(est.homology_dimensions_) THEN [heap |-> h, Xt |-> <<>>]
    ELSE LET dim == est.homology_dimensions_[k]
             r == TaskOf(est, _subdiagrams(h[X], dim), dim)
             h1 == IF view
                   THEN [h EXCEPT ![X] = WrittenThrough(h[X], dim, r.diagrams)]
                   ELSE h
             rest == RunTasks(est, h1, X, k + 1, view)
         IN [heap |-> rest.heap, Xt |-> <<r.value>> \o rest.Xt]

\* np.concatenate(Xt).reshape(n_dimensions, n_samples, n_bins, n_bins)
\* .transpose((1, 0, 2, 3))
Gather(Xt, n_samples, n_bins) ==
    [shape |-> <<n_samples, Len(Xt), n_bins, n_bins>>,
     data |-> [i \in 1..n_samples |-> [d \in 1..Len(Xt) |-> Xt[d].data[i]]]]

\* The batches handed to transform: points on, above and below the
\* diagonal; every column holds one dimension, 0 or 1, in ascending order.
TransformPoints == ValidPoints \cup {<<1, 0>>}

ColumnDims(m) ==
    {q \in [1..m -> {Num(0), Num(2)}] :
        \A j \in 1..(m - 1) : q[j][2] <= q[j + 1][2]}

TransformBatches ==
    UNION {{[shape |-> <<nm[1], nm[2], 3>>,
             data |-> [i \in 1..nm[1] |-> [j \in 1..nm[2] |->
                          <<d[i][j][1], d[i][j][2], q[j]>>]]] :
               d \in [1..nm[1] -> [1..nm[2] -> TransformPoints]],
               q \in ColumnDims(nm[2])} : nm \in Shapes}

\* The attributes fit leaves in a HeatKernel or a PersistenceImage fitted on
\* the batch X: one grid of step 1 for every dimension, and for the
\* PersistenceImage the weights of the default weight function.
Fitted(kind, X, s0, sigma) ==
    LET dims == Sorted(FirstSampleDims(X))
        D == {dims[k] : k \in 1..Len(dims)}
        sampling == IF kind = "HeatKernel"
                    THEN [k \in 1..NBins |-> <<s0 + (k - 1)>>]
                    ELSE [k \in 1..NBins |-> <<s0 + (k - 1), s0 + (k - 1)>>]
    IN [kind |-> kind, sigma |-> sigma, n_bins |-> NBins,
        homology_dimensions_ |-> dims,
        _samplings |-> [q \in D |-> sampling],
        _step_size |-> [q \in D |-> IF kind = "HeatKernel" THEN <<1>>
                                    ELSE <<1, 1>>],
        weights_ |-> [q \in D |-> IF kind = "HeatKernel" THEN <<>>
                                  ELSE [k \in 1..NBins |-> sampling[k][2]]]]

(***************************************************************************)
(* Component "transform": one call of transform of a fitted HeatKernel or  *)
(* PersistenceImage with n_jobs = 1, on a batch the caller holds.          *)
(***************************************************************************)
InitTransform ==
    /\ comp = "transform"
    /\ pc = "start"
    /\ \E X \in TransformBatches :
          /\ heap = <<X>>
          /\ X0 = X
          /\ \E kind \in {"HeatKernel", "PersistenceImage"}, s0 \in 0..1,
                sigma \in Sigmas : self = Fitted(kind, X, s0, sigma)
    /\ Xref = 1
    /\ ret = None
    /\ diagrams = None /\ base = None /\ out = None /\ args = None
    /\ pool = None

\* X = check_diagram(X, copy=True)
TransformCheck ==
    /\ comp = "transform"
    /\ pc = "start"
    /\ LET r == check_diagram(heap, Xref, TRUE)
       IN /\ heap' = r.heap
          /\ ret' = [k |-> "result", raised |-> r.raised, ref |-> r.ref,
                     copy |-> TRUE]
          /\ pc' = IF r.raised = "none" THEN "dispatch" ELSE "raised"
    /\ UNCHANGED <<comp, Xref, X0, diagrams, base, out, self, args, pool>>

\* Xt = Parallel(...)(...), then the concatenation, reshape and transpose.
TransformTasks ==
    /\ comp = "transform"
    /\ pc = "dispatch"
    /\ \E view \in BOOLEAN :
          LET r == RunTasks(self, heap, ret.ref, 1, view)
          IN /\ heap' = r.heap
             /\ out' = [op |-> self.kind,
                        value |-> Gather(r.Xt, heap[ret.ref].shape[1],
                                         self.n_bins)]
    /\ pc' = "done"
    /\ UNCHANGED <<comp, Xref, X0, ret, diagrams, base, self, args, pool>>

NextTransform ==
    \/ TransformCheck
    \/ TransformTasks

SpecTransform == InitTransform /\ [][NextTransform]_vars

(***************************************************************************)
(* Claims about transform.                                                 *)
(***************************************************************************)
\* C4: transform works on a copy of the batch obtained from check_diagram
\* before any task is dispatched: the array the tasks are given is not the
\* caller's array, check_diagram leaves the caller's array as it was, and
\* the caller's array has the values it had before transform at every point
\* of the call, the end included.
C4_CallerBatchUnchanged ==
    comp = "transform" =>
        /\ heap[Xref] = X0
        /\ pc \in {"dispatch", "done"} => ret.ref # Xref
        /\ pc = "dispatch" => heap[ret.ref] = X0

\* transform is over, its tasks wrote to the batch they were given (a value
\* was set to the sampling range or re-parametrised), and the caller's batch
\* is as it was.
C4_Witness ==
    /\ comp = "transform"
    /\ pc = "done"
    /\ heap[ret.ref] # X0
    /\ heap[Xref] = X0

(***************************************************************************)
(* Norms and distances.  The number pow^(1/p), pow a fraction >= 0, is     *)
(* the record Root(p, pow): two such numbers of the same p are equal       *)
(* exactly when their records are.                                         *)
(***************************************************************************)
FracAdd(a, b) == LET g == GCD(a.d, b.d)
                 IN Frac(a.n * (b.d \div g) + b.n * (a.d \div g),
                         (a.d \div g) * b.d)

FracAbs(a) == Frac(Abs(a.n), a.d)

\* a ** p, p a positive integer.
RECURSIVE FracPow(_, _)
FracPow(a, p) == IF p = 1 THEN a ELSE FracMul(a, FracPow(a, p - 1))

FracLess(a, b) == a.n * b.d < b.n * a.d

Root(p, pow) == [k |-> "root", p |-> p, pow |-> pow]

\* The sum of |u[k] - v[k]| ** p over the entries k, k + 1, ... of two
\* vectors of fractions.
RECURSIVE PowSum(_, _, _, _)
PowSum(u, v, p, k) ==
    IF k > Len(u) THEN Zero
    ELSE FracAdd(FracPow(FracAbs(FracSub(u[k], v[k])), p),
                 PowSum(u, v, p, k + 1))

\* The Minkowski distance of order p of two vectors.
Minkowski(u, v, p) == Root(p, PowSum(u, v, p, 1))

\* pdist(U, "minkowski", p=p): the distances of the pairs of rows i < j.
pdist(U, p) ==
    [ij \in {ij \in (1..Len(U)) \X (1..Len(U)) : ij[1] < ij[2]} |->
        Minkowski(U[ij[1]], U[ij[2]], p)]

\* squareform filling only the entries above the diagonal.
squareform_upper(c, n, p) ==
    [shape |-> <<n, n>>,
     data |-> Tuple([i \in 1..n |-> Tuple([j \in 1..n |->
                  IF i < j THEN c[<<i, j>>] ELSE Root(p, Zero)])])]

\* squareform of the condensed distances of n rows: a symmetric matrix with
\* zeros on its diagonal.
squareform(c, n, p) ==
    [shape |-> <<n, n>>,
     data |-> Tuple([i \in 1..n |-> Tuple([j \in 1..n |->
                  IF i = j THEN Root(p, Zero)
                  ELSE IF i < j THEN c[<<i, j>>] ELSE c[<<j, i>>]])])]

\* cdist(U, V, "minkowski", p=p)
cdist(U, V, p) ==
    [shape |-> <<Len(U), Len(V)>>,
     data |-> Tuple([i \in 1..Len(U) |-> Tuple([j \in 1..Len(V) |->
                  Minkowski(U[i], V[j], p)])])]

\* (step_size ** (1 / p)) * unnorm_dist
Scaled(step_size, p, unnorm_dist) ==
    [unnorm_dist EXCEPT !.data =
        Tuple([i \in 1..unnorm_dist.shape[1] |->
            Tuple([j \in 1..unnorm_dist.shape[2] |->
                Root(p, FracMul(Frac(step_size, 1),
                                unnorm_dist.data[i][j].pow))])])]

\* np.array_equal
array_equal(a, b) == a.shape = b.shape /\ a.data = b.data

\* The rows of a vectorization as vectors of fractions: betti_curves as it
\* is, landscapes and heats after reshape(n_samples, -1).  The landscape
\* values are kept doubled, hence the division by 2.
BettiRows(bc) ==
    Tuple([i \in 1..bc.shape[1] |->
        Tuple([k \in 1..bc.shape[2] |-> Frac(bc.data[i][k], 1)])])

LandscapeRows(ls) ==
    Tuple([i \in 1..ls.shape[1] |->
        Tuple([c \in 1..(ls.shape[2] * ls.shape[3]) |->
            Frac(ls.data[i][((c - 1) \div ls.shape[3]) + 1]
                            [((c - 1) % ls.shape[3]) + 1], 2)])])

RasterRows(im) ==
    Tuple([i \in 1..im.shape[1] |->
        Tuple([c \in 1..(im.shape[2] * im.shape[3]) |->
            im.data[i][((c - 1) \div im.shape[3]) + 1]
                      [((c - 1) % im.shape[3]) + 1]])])

(***************************************************************************)
(* The pairwise recipes of the vectorizations.  A recipe is given the      *)
(* store h and the addresses d1, d2 of its two batches, which may be the   *)
(* same address; it gives the store it leaves, what it raised, the matrix  *)
(* it returned, and the calls it made to the exact-matching backend.       *)
(***************************************************************************)
Returned(h, value) ==
    [heap |-> h, raised |-> "none", value |-> value, calls |-> <<>>]

Raised(h, e) == [heap |-> h, raised |-> e, value |-> None, calls |-> <<>>]

\* The outcome r of a recipe, reached on the path after the test
\* np.array_equal(diagrams_1, diagrams_2): "pdist" if it held, "cdist" if
\* not.
Taken(path, r) ==
    [heap |-> r.heap, raised |-> r.raised, value |-> r.value,
     calls |-> r.calls, path |-> path]

betti_distances(h, d1, d2, sampling, step_size, p) ==
    LET betti_curves_1 == BettiRows(betti_curves(h[d1], sampling))
        betti_curves_2 == BettiRows(betti_curves(h[d2], sampling))
    IN IF array_equal(h[d1], h[d2])
       THEN Taken("pdist", Returned(h, Scaled(step_size, p,
                squareform(pdist(betti_curves_1, p),
                           Len(betti_curves_1), p))))
       ELSE Taken("cdist", Returned(h, Scaled(step_size, p,
                cdist(betti_curves_1, betti_curves_2, p))))

landscape_distances(h, d1, d2, sampling, step_size, p, n_layers, front) ==
    LET n_layers_1 == Min2(n_layers, h[d1].shape[2])
        n_layers_2 == Min2(n_layers, h[d2].shape[2])
        n_layers_max == Max2(n_layers_1, n_layers_2)
    IN IF array_equal(h[d1], h[d2])
       THEN LET ls_1 == LandscapeRows(
                            landscapes(h[d1], sampling, n_layers_1, front))
            IN Taken("pdist", Returned(h, Scaled(step_size, p,
                   squareform(pdist(ls_1, p), Len(ls_1), p))))
       ELSE LET ls_1 == LandscapeRows(
                            landscapes(h[d1], sampling, n_layers_max, front))
                ls_2 == LandscapeRows(
                            landscapes(h[d2], sampling, n_layers_max, front))
            IN Taken("cdist", Returned(h, Scaled(step_size, p,
                   cdist(ls_1, ls_2, p))))

\* heats writes to the batch at d1 before the two batches are compared, and
\* to the batch at d2 on the two-batch path.
heat_distances(h, d1, d2, sampling, step_size, sigma, p) ==
    LET r1 == heats(h[d1], sampling, step_size, sigma)
        h1 == [h EXCEPT ![d1] = r1.diagrams]
        heat_1 == RasterRows(r1.value)
    IN IF array_equal(h1[d1], h1[d2])
       THEN Taken("pdist", Returned(h1, Scaled(step_size, p,
                squareform(pdist(heat_1, p), Len(heat_1), p))))
       ELSE LET r2 == heats(h1[d2], sampling, step_size, sigma)
                h2 == [h1 EXCEPT ![d2] = r2.diagrams]
                heat_2 == RasterRows(r2.value)
            IN Taken("cdist", Returned(h2, Scaled(step_size, p,
                   cdist(heat_1, heat_2, p))))

\* diagrams[:, :, 1] = diagrams[:, :, 1] - diagrams[:, :, 0], in place: the
\* first statement of persistence_images that writes to its argument.
Reparametrised(dgms) ==
    [dgms EXCEPT !.data =
        Tuple([i \in 1..dgms.shape[1] |-> Tuple([q \in 1..dgms.shape[2] |->
            <<dgms.data[i][q][1],
              dgms.data[i][q][2] - dgms.data[i][q][1]>>])])]

\* A call of persistence_images whose argument sampling is an ndarray
\* [shape, data] of any rank: sampling[0, axis] raises IndexError for an
\* array of rank 1, after the batch has been re-parametrised.
persistence_images_call(dgms, sampling, step_size, weights, sigma) ==
    IF Len(sampling.shape) < 2
    THEN [raised |-> "IndexError", diagrams |-> Reparametrised(dgms),
          value |-> None]
    ELSE LET r == persistence_images(dgms, sampling.data, step_size, weights,
                                     sigma)
         IN [raised |-> "none", diagrams |-> r.diagrams, value |-> r.value]

\* sampling.reshape((-1,)) of an array of shape (n_bins, 2): rank 1.
Flattened(sampling) ==
    [shape |-> <<Len(sampling) * 2>>,
     data |-> Tuple([c \in 1..(Len(sampling) * 2) |->
                  sampling[((c - 1) \div 2) + 1][((c - 1) % 2) + 1]])]

\* persistence_image_distances with its default weight_function (x -> x).
persistence_image_distances(h, d1, d2, sampling, step_size, sigma, p) ==
    LET sampling_ == Flattened(sampling)
        weights == Tuple([c \in 1..Len(sampling_.data) |->
                       sampling_.data[c] - sampling_.data[1]])
        r1 == persistence_images_call(h[d1], sampling_, step_size, weights,
                                      sigma)
        h1 == [h EXCEPT ![d1] = r1.diagrams]
    IN IF r1.raised # "none" THEN Raised(h1, r1.raised)
       ELSE IF array_equal(h1[d1], h1[d2])
       THEN Taken("pdist", Returned(h1, Scaled(step_size[1], p,
                squareform(pdist(RasterRows(r1.value), p),
                           h[d1].shape[1], p))))
       ELSE LET r2 == persistence_images_call(h1[d2], sampling_, step_size,
                                              weights, sigma)
                h2 == [h1 EXCEPT ![d2] = r2.diagrams]
            IN IF r2.raised # "none" THEN Taken("cdist", Raised(h2, r2.raised))
               ELSE Taken("cdist", Returned(h2, Scaled(step_size[1], p,
                        cdist(RasterRows(r1.value), RasterRows(r2.value),
                              p))))

(***************************************************************************)
(* The arguments the model draws for the recipes.                          *)
(***************************************************************************)
\* The orders p of the norms.
Orders == {1, 2}

\* A batch of one sample of m padding points.
PaddingBatch(m) ==
    [shape |-> <<1, m, 2>>, data |-> <<[q \in 1..m |-> <<0, 0>>]>>]

\* Grids of NBins values from 0, of step 1 or 2.
RecipeGrids == {s \in Grids : s[1] = 0}

\* Samplings of heat_distances: of step 1, from 0 or from 1.
RecipeHeatSamplings == {s \in HeatSamplings : StepOf(s, 1) = 1}

\* Samplings of persistence_image_distances.
RecipeImageSamplings ==
    {s \in ImageSamplings : StepOf(s, 2) = 1 /\ s[1][1] = s[1][2]}

\* n_layers of landscape_distances and landscape_amplitudes: the default
\* value and the largest.
RecipeLayers == {1, MaxLayers}

\* sigma of heat_distances, heat_amplitudes, persistence_image_distances:
\* the default value.
RecipeSigmas == {1}

(***************************************************************************)
(* Component "recipes": one call of a pairwise recipe on two batches,      *)
(* which are the same array, two arrays of equal values, or a batch and    *)
(* an all-padding batch.                                                   *)
(***************************************************************************)
InitRecipes ==
    /\ comp = "recipes"
    /\ pc = "args"
    /\ \E X \in SubdiagramBatches :
          /\ X0 = X
          /\ \/ heap = <<X>>
                /\ args = [diagrams_1 |-> X, diagrams_2 |-> X,
                           d1 |-> 1, d2 |-> 1]
             \/ \E Y \in {X, PaddingBatch(1)} :
                   /\ heap = <<X, Y>>
                   /\ args = [diagrams_1 |-> X, diagrams_2 |-> Y,
                              d1 |-> 1, d2 |-> 2]
    /\ Xref = 1
    /\ ret = None
    /\ diagrams = None /\ base = None /\ out = None /\ self = None
    /\ pool = None

\* What a call of a recipe leaves in out; path is "none" for a recipe
\* that ended before the test of np.array_equal or has none.
RecipeOut(recipe, metric, params, r) ==
    [recipe |-> recipe, metric |-> metric, params |-> params,
     raised |-> r.raised, value |-> r.value, calls |-> r.calls,
     path |-> IF "path" \in DOMAIN r THEN r.path ELSE "none"]

NoParams ==
    [sampling |-> <<>>, step_size |-> 0, p |-> 0, n_layers |-> 0,
     sigma |-> 0, delta |-> 0]

BettiDistances ==
    /\ comp = "recipes"
    /\ pc = "args"
    /\ \E sampling \in RecipeGrids, p \in Orders :
          LET step_size == sampling[2] - sampling[1]
              r == betti_distances(heap, args.d1, args.d2, sampling,
                                   step_size, p)
          IN /\ heap' = r.heap
             /\ out' = RecipeOut("distances", "betti",
                           [NoParams EXCEPT !.sampling = sampling,
                               !.step_size = step_size, !.p = p], r)
    /\ pc' = "done"
    /\ UNCHANGED <<comp, Xref, X0, ret, diagrams, base, self, args, pool>>

LandscapeDistances ==
    /\ comp = "recipes"
    /\ pc = "args"
    /\ \E sampling \in RecipeGrids, p \in Orders, n_layers \in RecipeLayers,
          front \in {"ascending", "descending"} :
          LET step_size == sampling[2] - sampling[1]
              r == landscape_distances(heap, args.d1, args.d2, sampling,
                                       step_size, p, n_layers, front)
          IN /\ heap' = r.heap
             /\ out' = RecipeOut("distances", "landscape",
                           [NoParams EXCEPT !.sampling = sampling,
                               !.step_size = step_size, !.p = p,
                               !.n_layers = n_layers], r)
    /\ pc' = "done"
    /\ UNCHANGED <<comp, Xref, X0, ret, diagrams, base, self, args, pool>>

HeatDistances ==
    /\ comp = "recipes"
    /\ pc = "args"
    /\ \E sampling \in RecipeHeatSamplings, p \in Orders, sigma \in RecipeSigmas :
          LET step_size == StepOf(sampling, 1)
              r == heat_distances(heap, args.d1, args.d2, sampling,
                                  step_size, sigma, p)
          IN /\ heap' = r.heap
             /\ out' = RecipeOut("distances", "heat",
                           [NoParams EXCEPT !.sampling = sampling,
                               !.step_size = step_size, !.p = p,
                               !.sigma = sigma], r)
    /\ pc' = "done"
    /\ UNCHANGED <<comp, Xref, X0, ret, diagrams, base, self, args, pool>>

PersistenceImageDistances ==
    /\ comp = "recipes"
    /\ pc = "args"
    /\ \E sampling \in RecipeImageSamplings, p \in Orders, sigma \in RecipeSigmas :
          LET step_size == <<StepOf(sampling, 1), StepOf(sampling, 2)>>
              r == persistence_image_distances(heap, args.d1, args.d2,
                                               sampling, step_size, sigma, p)
          IN /\ heap' = r.heap
             /\ out' = RecipeOut("distances", "persistence_image",
                           [NoParams EXCEPT !.sampling = sampling,
                               !.step_size = step_size, !.p = p,
                               !.sigma = sigma], r)
    /\ pc' = "done"
    /\ UNCHANGED <<comp, Xref, X0, ret, diagrams, base, self, args, pool>>


(***************************************************************************)
(* The amplitude recipes.  np.linalg.norm with axis=1 is the p-norm of     *)
(* each row; with axis=(1, 2) it is the matrix norm of each raster: the    *)
(* largest column sum of absolute values for ord=1, the largest singular   *)
(* value for ord=2.                                                        *)
(***************************************************************************)
ZeroRow(n) == Tuple([c \in 1..n |-> Zero])

\* np.linalg.norm(rows, axis=1, ord=p)
vector_norm(rows, p) ==
    [shape |-> <<Len(rows)>>,
     data |-> Tuple([i \in 1..Len(rows) |->
                  Minkowski(rows[i], ZeroRow(Len(rows[i])), p)])]

RECURSIVE ColumnSum(_, _, _)
ColumnSum(A, j, i) ==
    IF i > Len(A) THEN Zero
    ELSE FracAdd(FracAbs(A[i][j]), ColumnSum(A, j, i + 1))

RECURSIVE MaxColumnSum(_, _)
MaxColumnSum(A, j) ==
    IF j = Len(A[1]) THEN ColumnSum(A, j, 1)
    ELSE LET here == ColumnSum(A, j, 1)
             rest == MaxColumnSum(A, j + 1)
         IN IF FracLess(here, rest) THEN rest ELSE here

IsZeroMatrix(A) ==
    \A i \in 1..Len(A) : \A j \in 1..Len(A[i]) : A[i][j] = Zero

\* The largest singular value of a matrix, kept as a term of the matrix
\* unless the matrix is zero.
SigmaMax(A) ==
    IF IsZeroMatrix(A) THEN Root(2, Zero)
    ELSE [k |-> "sigma_max", p |-> 2, pow |-> A]

\* np.linalg.norm(rasters, axis=(1, 2), ord=p), p in {1, 2}
matrix_norm(rasters, p) ==
    [shape |-> <<rasters.shape[1]>>,
     data |-> Tuple([i \in 1..rasters.shape[1] |->
                  IF p = 1 THEN Root(1, MaxColumnSum(rasters.data[i], 1))
                  ELSE SigmaMax(rasters.data[i])])]

\* (step_size ** (1 / p)) * norms
ScaledVector(step_size, p, norms) ==
    [norms EXCEPT !.data =
        Tuple([i \in 1..norms.shape[1] |->
            Root(p, FracMul(Frac(step_size, 1), norms.data[i].pow))])]

betti_amplitudes(h, d, sampling, step_size, p) ==
    LET bcs == BettiRows(betti_curves(h[d], sampling))
    IN Returned(h, ScaledVector(step_size, p, vector_norm(bcs, p)))

landscape_amplitudes(h, d, sampling, step_size, p, n_layers, front) ==
    LET ls == LandscapeRows(landscapes(h[d], sampling, n_layers, front))
    IN Returned(h, ScaledVector(step_size, p, vector_norm(ls, p)))

heat_amplitudes(h, d, sampling, step_size, sigma, p) ==
    LET r == heats(h[d], sampling, step_size, sigma)
    IN Returned([h EXCEPT ![d] = r.diagrams], matrix_norm(r.value, p))

BettiAmplitudes ==
    /\ comp = "recipes"
    /\ pc = "args"
    /\ args.d1 = args.d2
    /\ \E sampling \in RecipeGrids, p \in Orders :
          LET step_size == sampling[2] - sampling[1]
              r == betti_amplitudes(heap, args.d1, sampling, step_size, p)
          IN /\ heap' = r.heap
             /\ out' = RecipeOut("amplitudes", "betti",
                           [NoParams EXCEPT !.sampling = sampling,
                               !.step_size = step_size, !.p = p], r)
    /\ pc' = "done"
    /\ UNCHANGED <<comp, Xref, X0, ret, diagrams, base, self, args, pool>>

LandscapeAmplitudes ==
    /\ comp = "recipes"
    /\ pc = "args"
    /\ args.d1 = args.d2
    /\ \E sampling \in RecipeGrids, p \in Orders, n_layers \in RecipeLayers,
          front \in {"ascending", "descending"} :
          LET step_size == sampling[2] - sampling[1]
              r == landscape_amplitudes(heap, args.d1, sampling, step_size,
                                        p, n_layers, front)
          IN /\ heap' = r.heap
             /\ out' = RecipeOut("amplitudes", "landscape",
                           [NoParams EXCEPT !.sampling = sampling,
                               !.step_size = step_size, !.p = p,
                               !.n_layers = n_layers], r)
    /\ pc' = "done"
    /\ UNCHANGED <<comp, Xref, X0, ret, diagrams, base, self, args, pool>>

HeatAmplitudes ==
    /\ comp = "recipes"
    /\ pc = "args"
    /\ args.d1 = args.d2
    /\ \E sampling \in RecipeHeatSamplings, p \in Orders, sigma \in RecipeSigmas :
          LET step_size == StepOf(sampling, 1)
              r == heat_amplitudes(heap, args.d1, sampling, step_size,
                                   sigma, p)
          IN /\ heap' = r.heap
             /\ out' = RecipeOut("amplitudes", "heat",
                           [NoParams EXCEPT !.sampling = sampling,
                               !.step_size = step_size, !.p = p,
                               !.sigma = sigma], r)
    /\ pc' = "done"
    /\ UNCHANGED <<comp, Xref, X0, ret, diagrams, base, self, args, pool>>

(***************************************************************************)
(* The recipes of the matching metrics.  bottleneck_distance and           *)
(* wasserstein_distance are the exact-matching backend: a call is kept as  *)
(* a record of its arguments, and its result as a term of the call.        *)
(***************************************************************************)
\* delta, in hundredths: the default value.
Deltas == {1}

\* A selection that keeps every point.
OffDiagonalAll(diagram) == diagram

\* diagram[diagram[:, 0] != diagram[:, 1]]
OffDiagonal(diagram) == SelectSeq(diagram, LAMBDA pt : pt[1] # pt[2])

bottleneck_distance(diagram_1, diagram_2, delta) ==
    [fn |-> "bottleneck_distance", diagram_1 |-> diagram_1,
     diagram_2 |-> diagram_2, p |-> 0, delta |-> delta]

wasserstein_distance(diagram_1, diagram_2, p, delta) ==
    [fn |-> "wasserstein_distance", diagram_1 |-> diagram_1,
     diagram_2 |-> diagram_2, p |-> p, delta |-> delta]

\* What the backend returns for a call.
BackendResult(call) == [k |-> "matching", call |-> call]

\* np.array([[f(diagram_1, diagram_2) for diagram_2 in diagrams_2]
\*           for diagram_1 in diagrams_1]): the calls in the order they are
\* made, and the matrix of their results.
Comprehension(h, calls, n1, n2) ==
    [heap |-> h, raised |-> "none",
     value |-> [shape |-> <<n1, n2>>,
                data |-> Tuple([i \in 1..n1 |-> Tuple([j \in 1..n2 |->
                             BackendResult(calls[(i - 1) * n2 + j])])])],
     calls |-> calls]

bottleneck_distances(h, d1, d2, delta) ==
    LET n1 == h[d1].shape[1]
        n2 == h[d2].shape[1]
        calls == Tuple([c \in 1..(n1 * n2) |->
                     bottleneck_distance(
                         OffDiagonal(h[d1].data[((c - 1) \div n2) + 1]),
                         OffDiagonal(h[d2].data[((c - 1) % n2) + 1]),
                         delta)])
    IN Comprehension(h, calls, n1, n2)

wasserstein_distances(h, d1, d2, p, delta) ==
    LET n1 == h[d1].shape[1]
        n2 == h[d2].shape[1]
        calls == Tuple([c \in 1..(n1 * n2) |->
                     wasserstein_distance(
                         OffDiagonal(h[d1].data[((c - 1) \div n2) + 1]),
                         OffDiagonal(h[d2].data[((c - 1) % n2) + 1]),
                         p, delta)])
    IN Comprehension(h, calls, n1, n2)

\* diagrams[:, :, 1] - diagrams[:, :, 0] of one sample
Persistences(diagram) ==
    Tuple([q \in 1..Len(diagram) |-> diagram[q][2] - diagram[q][1]])

\* np.sqrt(2) / 2.0 * x for x >= 0: the square root of x * x / 2.
SqrtHalfTimes(x) == Root(2, Frac(x * x, 2))

RECURSIVE MinAbs(_, _)
MinAbs(row, k) ==
    IF k = Len(row) THEN Abs(row[k])
    ELSE Min2(Abs(row[k]), MinAbs(row, k + 1))

\* np.linalg.norm(row, ord=np.inf) of entries k, k + 1, ...
RECURSIVE MaxAbs(_, _)
MaxAbs(row, k) ==
    IF k = Len(row) THEN Abs(row[k])
    ELSE Max2(Abs(row[k]), MaxAbs(row, k + 1))

RECURSIVE SumAbsPow(_, _, _)
SumAbsPow(row, p, k) ==
    IF k > Len(row) THEN 0
    ELSE (IF p = 1 THEN Abs(row[k]) ELSE row[k] * row[k])
         + SumAbsPow(row, p, k + 1)

bottleneck_amplitudes(h, d) ==
    Returned(h,
        [shape |-> <<h[d].shape[1]>>,
         data |-> Tuple([i \in 1..h[d].shape[1] |->
                      SqrtHalfTimes(MaxAbs(Persistences(h[d].data[i]),
                                           1))])])

\* np.linalg.norm(dists_to_diago, axis=1, ord=p), p in {1, 2}: for p = 2
\* the square root of the sum of the squares, each square halved.
wasserstein_amplitudes(h, d, p) ==
    Returned(h,
        [shape |-> <<h[d].shape[1]>>,
         data |-> Tuple([i \in 1..h[d].shape[1] |->
                      LET s == SumAbsPow(Persistences(h[d].data[i]), p, 1)
                      IN IF p = 1 THEN SqrtHalfTimes(s)
                         ELSE Root(2, Frac(s, 2))])])

BottleneckDistances ==
    /\ comp = "recipes"
    /\ pc = "args"
    /\ \E delta \in Deltas :
          LET r == bottleneck_distances(heap, args.d1, args.d2, delta)
          IN /\ heap' = r.heap
             /\ out' = RecipeOut("distances", "bottleneck",
                           [NoParams EXCEPT !.delta = delta], r)
    /\ pc' = "done"
    /\ UNCHANGED <<comp, Xref, X0, ret, diagrams, base, self, args, pool>>

WassersteinDistances ==
    /\ comp = "recipes"
    /\ pc = "args"
    /\ \E p \in Orders, delta \in Deltas :
          LET r == wasserstein_distances(heap, args.d1, args.d2, p, delta)
          IN /\ heap' = r.heap
             /\ out' = RecipeOut("distances", "wasserstein",
                           [NoParams EXCEPT !.p = p, !.delta = delta], r)
    /\ pc' = "done"
    /\ UNCHANGED <<comp, Xref, X0, ret, diagrams, base, self, args, pool>>

BottleneckAmplitudes ==
    /\ comp = "recipes"
    /\ pc = "args"
    /\ args.d1 = args.d2
    /\ LET r == bottleneck_amplitudes(heap, args.d1)
       IN /\ heap' = r.heap
          /\ out' = RecipeOut("amplitudes", "bottleneck", NoParams, r)
    /\ pc' = "done"
    /\ UNCHANGED <<comp, Xref, X0, ret, diagrams, base, self, args, pool>>

WassersteinAmplitudes ==
    /\ comp = "recipes"
    /\ pc = "args"
    /\ args.d1 = args.d2
    /\ \E p \in Orders :
          LET r == wasserstein_amplitudes(heap, args.d1, p)
          IN /\ heap' = r.heap
             /\ out' = RecipeOut("amplitudes", "wasserstein",
                           [NoParams EXCEPT !.p = p], r)
    /\ pc' = "done"
    /\ UNCHANGED <<comp, Xref, X0, ret, diagrams, base, self, args, pool>>

NextRecipes ==
    \/ BettiDistances
    \/ LandscapeDistances
    \/ HeatDistances
    \/ PersistenceImageDistances
    \/ BettiAmplitudes
    \/ LandscapeAmplitudes
    \/ HeatAmplitudes
    \/ BottleneckDistances
    \/ WassersteinDistances
    \/ BottleneckAmplitudes
    \/ WassersteinAmplitudes

SpecRecipes == InitRecipes /\ [][NextRecipes]_vars

\* A recipe has returned a matrix.
RecipeReturned(metrics) ==
    /\ comp = "recipes"
    /\ pc = "done"
    /\ out.recipe = "distances"
    /\ out.metric \in metrics
    /\ out.raised = "none"

\* The two arguments were the same array, or arrays of identical values.
SelfDistance == args.diagrams_1 = args.diagrams_2

\* The call took the two-batch path: the first batch, as the call left it,
\* differs from the second batch as it was given.
TwoBatchPath ==
    args.d1 # args.d2 /\ ~array_equal(heap[args.d1], args.diagrams_2)

SymmetricZeroDiagonal(D, p) ==
    /\ D.shape[1] = D.shape[2]
    /\ \A i \in 1..D.shape[1] :
          /\ D.data[i][i] = Root(p, Zero)
          /\ \A j \in 1..D.shape[2] : D.data[i][j] = D.data[j][i]

\* C11: betti_distances, landscape_distances and heat_distances, given the
\* same batch as both arguments (one array, or two arrays of identical
\* values), return a matrix D with D[i][j] = D[j][i] and D[i][i] = 0, on the
\* single-batch path and on the two-batch path alike.
C11_SelfDistanceSymmetricZeroDiagonal ==
    (comp = "recipes" /\ pc = "done" /\ out.recipe = "distances"
        /\ out.metric \in {"betti", "landscape", "heat"} /\ SelfDistance)
    => /\ out.raised = "none"
       /\ out.value.shape = <<args.diagrams_1.shape[1],
                              args.diagrams_1.shape[1]>>
       /\ SymmetricZeroDiagonal(out.value, out.params.p)

\* A self-distance computed on the two-batch path, with samples at a
\* positive distance from each other.
C11_Witness ==
    /\ RecipeReturned({"heat"})
    /\ SelfDistance
    /\ TwoBatchPath
    /\ \E i, j \in 1..out.value.shape[1] :
          out.value.data[i][j] # Root(out.params.p, Zero)

\* The same on the single-batch path.
C11_WitnessShortCircuit ==
    /\ RecipeReturned({"betti", "landscape", "heat"})
    /\ args.d1 = args.d2
    /\ \E i, j \in 1..out.value.shape[1] :
          out.value.data[i][j] # Root(out.params.p, Zero)


\* The rows of the vectorization of a batch for a metric and its parameters.
VectorizationRows(metric, dgms, params, front) ==
    CASE metric = "betti" -> BettiRows(betti_curves(dgms, params.sampling))
      [] metric = "landscape" ->
            LandscapeRows(landscapes(dgms, params.sampling,
                Min2(params.n_layers, dgms.shape[2]), front))
      [] metric = "heat" ->
            RasterRows(heats(dgms, params.sampling, params.step_size,
                             params.sigma).value)
      [] metric = "persistence_image" ->
            RasterRows(persistence_images(dgms, params.sampling,
                params.step_size,
                [c \in 1..Len(params.sampling) |->
                    params.sampling[c][2] - params.sampling[1][2]],
                params.sigma).value)

\* The all-pairs distance between the vectorizations of the two batches
\* as they were given.
AllPairs(metric, params, front) ==
    Scaled(IF metric = "persistence_image" THEN params.step_size[1]
           ELSE params.step_size,
           params.p,
           cdist(VectorizationRows(metric, args.diagrams_1, params, front),
                 VectorizationRows(metric, args.diagrams_2, params, front),
                 params.p))

ShortCircuitEquivalence(metrics) ==
    (comp = "recipes" /\ pc = "done" /\ out.recipe = "distances"
        /\ out.metric \in metrics /\ SelfDistance)
    => /\ out.raised = "none"
       /\ \E front \in {"ascending", "descending"} :
             out.value = AllPairs(out.metric, out.params, front)

\* C12: for betti, landscape, heat and persistence_image, the recipe given
\* (X, X) and the recipe given (X, Y), Y another array of the values of X,
\* both return the all-pairs distance matrix between the vectorizations of
\* the two batches.
C12_ShortCircuitEquivalence ==
    ShortCircuitEquivalence({"betti", "landscape", "heat",
                             "persistence_image"})

\* The part of C12 about betti, landscape and heat.
C12_CurvesAndHeat == ShortCircuitEquivalence({"betti", "landscape", "heat"})

\* persistence_image_distances has raised on (X, X).
C12_ImageRecipeRaises ==
    /\ comp = "recipes" /\ pc = "done"
    /\ out.recipe = "distances"
    /\ out.metric = "persistence_image"
    /\ args.d1 = args.d2
    /\ out.raised = "IndexError"


\* An amplitude recipe has ended.
AmplitudeDone(metrics) ==
    /\ comp = "recipes"
    /\ pc = "done"
    /\ out.recipe = "amplitudes"
    /\ out.metric \in metrics

\* step_size ** (1 / p) times the p-norm of the entries of each sample's
\* flattened vectorization.
EntrywiseNorms(metric, params, front) ==
    ScaledVector(params.step_size, params.p,
        vector_norm(VectorizationRows(metric, args.diagrams_1, params,
                                      front), params.p))

\* What the pairwise recipe of the metric returns between the batch and a
\* batch of one all-padding diagram.
DistancesToPadding(metric, params, front) ==
    LET h == <<args.diagrams_1, PaddingBatch(1)>>
    IN CASE metric = "betti" ->
               betti_distances(h, 1, 2, params.sampling, params.step_size,
                               params.p).value
         [] metric = "landscape" ->
               landscape_distances(h, 1, 2, params.sampling,
                   params.step_size, params.p, params.n_layers, front).value
         [] metric = "heat" ->
               heat_distances(h, 1, 2, params.sampling, params.step_size,
                              params.sigma, params.p).value

AmplitudeIsDistanceToEmpty(metrics) ==
    AmplitudeDone(metrics)
    => /\ out.raised = "none"
       /\ out.value.shape = <<args.diagrams_1.shape[1]>>
       /\ \E front \in {"ascending", "descending"} :
             \A i \in 1..out.value.shape[1] :
                /\ out.value.data[i].k = "root"
                /\ out.value.data[i]
                      = EntrywiseNorms(out.metric, out.params, front).data[i]
                /\ out.value.data[i]
                      = DistancesToPadding(out.metric, out.params,
                                           front).data[i][1]

\* C13: for betti, landscape and heat, the amplitude of each diagram is
\* step_size ** (1 / p) times the entrywise p-norm of its flattened
\* vectorization, which is the distance the pairwise recipe of the metric
\* returns between the diagram and an all-padding diagram.
C13_AmplitudeIsDistanceToEmpty ==
    AmplitudeIsDistanceToEmpty({"betti", "landscape", "heat"})

\* The part of C13 about betti and landscape.
C13_Curves == AmplitudeIsDistanceToEmpty({"betti", "landscape"})

\* A heat amplitude of order 1 that is smaller than the distance to the
\* all-padding diagram.
C13_HeatAmplitudeSmaller ==
    /\ AmplitudeDone({"heat"})
    /\ out.params.p = 1
    /\ \E i \in 1..out.value.shape[1] :
          FracLess(out.value.data[i].pow,
                   DistancesToPadding("heat", out.params,
                                      "ascending").data[i][1].pow)

\* A non-zero amplitude of a betti curve or a landscape.
C13_CurvesWitness ==
    /\ AmplitudeDone({"betti", "landscape"})
    /\ \E i \in 1..out.value.shape[1] :
          out.value.data[i] # Root(out.params.p, Zero)


\* A recipe of a matching metric has ended.
MatchingDone ==
    /\ comp = "recipes"
    /\ pc = "done"
    /\ out.recipe = "distances"
    /\ out.metric \in {"bottleneck", "wasserstein"}

\* How many times a point occurs in a diagram.
Occurrences(diagram, pt) ==
    Cardinality({q \in 1..Len(diagram) : diagram[q] = pt})

\* passed holds the points of diagram off the diagonal, each as many times
\* as diagram holds it, and no point of the diagonal.
OnlyOffDiagonal(passed, diagram) ==
    /\ \A q \in 1..Len(passed) : passed[q][1] # passed[q][2]
    /\ \A q \in 1..Len(diagram) :
          diagram[q][1] # diagram[q][2]
          => Occurrences(passed, diagram[q]) = Occurrences(diagram, diagram[q])
    /\ Len(passed) <= Len(diagram)

\* C15: bottleneck_distances and wasserstein_distances call the backend
\* once for every pair (i, j) of a sample of the first batch and a sample
\* of the second (n_samples_1 * n_samples_2 calls, the call of pair (i, j)
\* being the ((i - 1) * n_samples_2 + j)-th), give it the points of the two
\* diagrams with birth # death and no others, and place the result of the
\* call at [i][j] of a matrix of shape (n_samples_1, n_samples_2).
C15_BackendCalledOncePerPair ==
    MatchingDone
    => LET n1 == args.diagrams_1.shape[1]
           n2 == args.diagrams_2.shape[1]
       IN /\ out.raised = "none"
          /\ out.value.shape = <<n1, n2>>
          /\ Len(out.calls) = n1 * n2
          /\ \A i \in 1..n1 : \A j \in 1..n2 :
                LET call == out.calls[(i - 1) * n2 + j]
                IN /\ OnlyOffDiagonal(call.diagram_1,
                                      args.diagrams_1.data[i])
                   /\ OnlyOffDiagonal(call.diagram_2,
                                      args.diagrams_2.data[j])
                   /\ out.value.data[i][j] = BackendResult(call)
          /\ heap[args.d1] = args.diagrams_1
          /\ heap[args.d2] = args.diagrams_2

\* Two samples against one, with padding removed on one side and a point
\* kept on the other.
C15_Witness ==
    /\ MatchingDone
    /\ args.diagrams_1.shape[1] = 2
    /\ args.diagrams_2.shape[1] = 1
    /\ \E c \in 1..Len(out.calls) :
          /\ Len(out.calls[c].diagram_1) = 1
          /\ Len(out.calls[c].diagram_2) = 0

\* The amplitude recipe of the bottleneck metric has ended.
BottleneckAmplitudeDone ==
    /\ comp = "recipes"
    /\ pc = "done"
    /\ out.recipe = "amplitudes"
    /\ out.metric = "bottleneck"

\* The largest persistence of a diagram.
LargestPersistence(diagram) ==
    CHOOSE m \in {diagram[q][2] - diagram[q][1] : q \in 1..Len(diagram)} :
        \A q \in 1..Len(diagram) : diagram[q][2] - diagram[q][1] <= m

\* C16: bottleneck_amplitudes returns, for each sample, sqrt(2) / 2 times
\* the largest persistence of its points, without a call to the backend:
\* a value >= 0, which is 0 for an all-padding diagram and sqrt(2) / 2 for
\* the diagram of the single point (0, 1).
C16_BottleneckAmplitude ==
    BottleneckAmplitudeDone
    => /\ out.raised = "none"
       /\ out.calls = <<>>
       /\ out.value.shape = <<args.diagrams_1.shape[1]>>
       /\ \A i \in 1..args.diagrams_1.shape[1] :
             LET diagram == args.diagrams_1.data[i]
                 m == LargestPersistence(diagram)
                 a == out.value.data[i]
             IN /\ a = Root(2, Frac(m * m, 2))
                /\ a.pow.n >= 0
                /\ (\A q \in 1..Len(diagram) : diagram[q][1] = diagram[q][2])
                      => a = Root(2, Zero)
                /\ diagram = <<(<<0, 1>>)>> => a = Root(2, Frac(1, 2))

\* The amplitude of a diagram of two points of different persistence.
C16_Witness ==
    /\ BottleneckAmplitudeDone
    /\ \E i \in 1..args.diagrams_1.shape[1] :
          LET diagram == args.diagrams_1.data[i]
          IN /\ Len(diagram) = 2
             /\ diagram[1][2] - diagram[1][1] # diagram[2][2] - diagram[2][1]
             /\ out.value.data[i] # Root(2, Zero)

\* The amplitude of the diagram of the single point (0, 1).
C16_WitnessUnitPoint ==
    /\ BottleneckAmplitudeDone
    /\ args.diagrams_1.data = <<(<<(<<0, 1>>)>>)>>
    /\ out.value.data[1] = Root(2, Frac(1, 2))


(***************************************************************************)
(* The parallel engine: _parallel_pairwise, _parallel_amplitude and the    *)
(* transforms of PersistenceEntropy, BettiCurve and PersistenceLandscape.  *)
(* Each builds one task for every homology dimension and every slice of    *)
(* the samples, hands the tasks to Parallel, and assembles the list of     *)
(* their results, which Parallel gives in the order of the tasks.          *)
(***************************************************************************)
\* A batch handed to the engine has at most MaxSamples samples.
MaxSamples == 2

\* n_jobs is drawn from 1..MaxJobs.
MaxJobs == 3

\* sklearn.utils.gen_even_slices(n, n_packs) from pack pack_num on: the
\* slices <<start, stop>>, empty slices left out.
RECURSIVE EvenSlicesFrom(_, _, _, _)
EvenSlicesFrom(n, n_packs, pack_num, start) ==
    IF pack_num >= n_packs THEN <<>>
    ELSE LET this_n == (n \div n_packs)
                       + (IF pack_num < n % n_packs THEN 1 ELSE 0)
         IN IF this_n > 0
            THEN <<(<<start, start + this_n>>)>>
                 \o EvenSlicesFrom(n, n_packs, pack_num + 1, start + this_n)
            ELSE EvenSlicesFrom(n, n_packs, pack_num + 1, start)

gen_even_slices(n, n_packs) == EvenSlicesFrom(n, n_packs, 0, 0)

\* joblib.effective_n_jobs(n_jobs) for n_jobs >= 1.
effective_n_jobs(n_jobs) == n_jobs

\* A[s] for a slice s = <<start, stop>> of the first axis.
Rows(A, s) ==
    [shape |-> [A.shape EXCEPT ![1] = s[2] - s[1]],
     data |-> SubSeq(A.data, s[1] + 1, s[2])]

\* The arguments: every sample holds two points in each of its dimensions,
\* and no two (sample, dimension) of a batch hold the same two points, so
\* that a value put in the place of another is seen.
EngineDiagrams ==
    <<  <<(<<0, 1>>), (<<0, 0>>)>>,  <<(<<0, 1>>), (<<0, 2>>)>>,
        <<(<<0, 2>>), (<<0, 0>>)>>,  <<(<<0, 2>>), (<<0, 2>>)>>,
        <<(<<1, 2>>), (<<0, 0>>)>>,  <<(<<1, 2>>), (<<0, 2>>)>>  >>

\* The diagram of the c-th (sample, dimension) of a batch.
EngineDiagram(c, order) ==
    IF order = "ascending" THEN EngineDiagrams[c]
    ELSE EngineDiagrams[Len(EngineDiagrams) + 1 - c]

EngineDimLists == {<<Num(0)>>, <<Num(0), Num(2)>>}

WithDimension(diagram, q) ==
    [j \in 1..Len(diagram) |-> <<diagram[j][1], diagram[j][2], q>>]

RECURSIVE SampleOf(_, _, _, _)
SampleOf(i, dims, k, order) ==
    IF k > Len(dims) THEN <<>>
    ELSE WithDimension(EngineDiagram((i - 1) * Len(dims) + k, order), dims[k])
         \o SampleOf(i, dims, k + 1, order)

EngineBatchesOf(dims) ==
    {[shape |-> <<n, 2 * Len(dims), 3>>,
      data |-> [i \in 1..n |-> SampleOf(i, dims, 1, order)]] :
        n \in {n \in 1..MaxSamples : n * Len(dims) <= MaxCells + 2},
        order \in {"ascending", "descending"}}

\* The sampling and the step size of a dimension, as the caller's
\* metric_params hold them: a grid of step 1 from 0 for the metrics that
\* sample, None for the others.
EngineSampling(metric) ==
    CASE metric \in {"betti", "landscape"} -> [k \in 1..NBins |-> k - 1]
      [] metric = "heat" -> [k \in 1..NBins |-> <<k - 1>>]
      [] metric = "persistence_image" -> [k \in 1..NBins |-> <<k - 1, k - 1>>]
      [] OTHER -> None

EngineStepSize(metric) ==
    CASE metric \in {"betti", "landscape", "heat"} -> 1
      [] metric = "persistence_image" -> <<1, 1>>
      [] OTHER -> None

\* metric_params: the keys of the dictionary and the values under them.
DefaultParams ==
    [keys |-> {"samplings", "step_sizes"}, p |-> 2, n_layers |-> 1,
     sigma |-> 1, delta |-> 1, weights |-> <<>>]

EngineParams(op, metric) ==
    IF op = "amplitude" /\ metric = "persistence_image"
    THEN {DefaultParams,
          [DefaultParams EXCEPT !.keys = @ \cup {"weights", "sigma"},
                                !.weights = [k \in 1..NBins |-> k]]}
    ELSE {DefaultParams}

\* effective_metric_params after the two pops.
Popped(metric_params) ==
    [metric_params EXCEPT !.keys = @ \ {"samplings", "step_sizes"}]

\* The value a function called with **kwargs binds to a parameter.
Arg(kwargs, key, default) ==
    IF key \in kwargs.keys THEN kwargs[key] ELSE default

\* implemented_metric_recipes[metric](diagrams_1, diagrams_2,
\* sampling=sampling, step_size=step_size, **kwargs)
implemented_metric_recipes(metric, diagrams_1, diagrams_2, sampling, step_size, kwargs) ==
    LET h == <<diagrams_1, diagrams_2>>
        p == Arg(kwargs, "p", 2)
    IN CASE metric = "bottleneck" ->
               bottleneck_distances(h, 1, 2, Arg(kwargs, "delta", 1))
         [] metric = "wasserstein" ->
               wasserstein_distances(h, 1, 2, p, Arg(kwargs, "delta", 1))
         [] metric = "landscape" ->
               landscape_distances(h, 1, 2, sampling, step_size, p,
                   Arg(kwargs, "n_layers", 1), "ascending")
         [] metric = "betti" ->
               betti_distances(h, 1, 2, sampling, step_size, p)
         [] metric = "heat" ->
               heat_distances(h, 1, 2, sampling, step_size,
                              Arg(kwargs, "sigma", 1), p)
         [] metric = "persistence_image" ->
               persistence_image_distances(h, 1, 2, sampling, step_size,
                   Arg(kwargs, "sigma", 1), p)

\* implemented_amplitude_recipes[metric](diagrams, sampling=sampling,
\* step_size=step_size, **kwargs).  The entry of "persistence_image" is
\* persistence_images, which has the parameters weights and sigma without
\* defaults and takes no other keyword.
implemented_amplitude_recipes(metric, diagrams_, sampling, step_size, kwargs) ==
    LET h == <<diagrams_>>
        p == Arg(kwargs, "p", 2)
    IN CASE metric = "bottleneck" -> bottleneck_amplitudes(h, 1)
         [] metric = "wasserstein" -> wasserstein_amplitudes(h, 1, p)
         [] metric = "landscape" ->
               landscape_amplitudes(h, 1, sampling, step_size, p,
                   Arg(kwargs, "n_layers", 1), "ascending")
         [] metric = "betti" ->
               betti_amplitudes(h, 1, sampling, step_size, p)
         [] metric = "heat" ->
               heat_amplitudes(h, 1, sampling, step_size,
                               Arg(kwargs, "sigma", 1), p)
         [] metric = "persistence_image" ->
               IF kwargs.keys # {"weights", "sigma"}
               THEN Raised(h, "TypeError")
               ELSE LET r == persistence_images(diagrams_, sampling,
                                 step_size, kwargs.weights, kwargs.sigma)
                    IN Returned(<<r.diagrams>>, r.value)


\* for dim in homology_dimensions for s in gen_even_slices(n, n_jobs): the
\* tasks in the order they are handed to Parallel; dim is the position of
\* the dimension in homology_dimensions.
RECURSIVE TasksFrom(_, _, _)
TasksFrom(n_dims, slices, k) ==
    IF k > n_dims THEN <<>>
    ELSE [c \in 1..Len(slices) |-> [dim |-> k, s |-> slices[c]]]
         \o TasksFrom(n_dims, slices, k + 1)

Tasks(n_dims, n, n_jobs) ==
    TasksFrom(n_dims, gen_even_slices(n, effective_n_jobs(n_jobs)), 1)

\* The batch the slices are taken of: X2, or X1 if X2 is None (address 0).
SlicedBatch(a) ==
    IF a.op = "pairwise" /\ a.X2 # 0 THEN a.X2 ELSE a.X1

\* The call a task makes, on the store h: what it returns or raises.
TaskCall(a, est, h, task) ==
    LET dim == a.homology_dimensions[task.dim]
        kwargs == Popped(a.metric_params)
    IN CASE a.op = "pairwise" ->
               implemented_metric_recipes(a.metric,
                   _subdiagrams(h[a.X1], dim),
                   _subdiagrams(Rows(h[SlicedBatch(a)], task.s), dim),
                   EngineSampling(a.metric), EngineStepSize(a.metric),
                   kwargs)
         [] a.op = "amplitude" ->
               implemented_amplitude_recipes(a.metric,
                   Rows(_subdiagrams(h[a.X1], dim), task.s),
                   EngineSampling(a.metric), EngineStepSize(a.metric),
                   kwargs)
         [] a.op = "PersistenceEntropy" ->
               Returned(h, persistence_entropy(
                   Rows(_subdiagrams(h[a.X1], dim), task.s)))
         [] a.op = "BettiCurve" ->
               Returned(h, betti_curves(
                   Rows(_subdiagrams(h[a.X1], dim), task.s),
                   est._samplings[dim]))
         [] a.op = "PersistenceLandscape" ->
               Returned(h, landscapes(
                   Rows(_subdiagrams(h[a.X1], dim), task.s),
                   est._samplings[dim], est.n_layers, "ascending"))

\* What the pool holds for a task.
Pending == [raised |-> "pending", value |-> None]

IsPending(result) == result.raised = "pending"

HasReturned(result) == result.raised = "none"

HasFailed(result) == ~IsPending(result) /\ ~HasReturned(result)

FirstFailed(results) ==
    CHOOSE t \in 1..Len(results) :
        /\ HasFailed(results[t])
        /\ \A u \in 1..(t - 1) : ~HasFailed(results[u])

\* A block of zeros of the shape the result of a task has.
ZeroBlock(a, h, task) ==
    LET len == task.s[2] - task.s[1]
    IN IF a.op = "pairwise"
       THEN [shape |-> <<h[a.X1].shape[1], len>>,
             data |-> [i \in 1..h[a.X1].shape[1] |-> [j \in 1..len |-> 0]]]
       ELSE [shape |-> <<len>>, data |-> [i \in 1..len |-> 0]]

\* A Parallel that gives zeros in the place of the result of a task that
\* did not return.
ParallelZeroFilling(p, a, h) ==
    [raised |-> "none",
     list |-> [t \in 1..Len(p.tasks) |->
                  IF HasReturned(p.results[t]) THEN p.results[t].value
                  ELSE ZeroBlock(a, h, p.tasks[t])]]

\* Parallel(n_jobs=n_jobs)(...): the exception of a task that failed, or
\* the list of the results in the order of the tasks.
Parallel(p, a, h) ==
    IF \E t \in 1..Len(p.tasks) : HasFailed(p.results[t])
    THEN [raised |-> p.results[FirstFailed(p.results)].raised, list |-> <<>>]
    ELSE [raised |-> "none",
          list |-> [t \in 1..Len(p.tasks) |-> p.results[t].value]]

\* The rows (first axis) of the arrays t, t + 1, ... of a list, one after
\* the other: np.concatenate(list).
RECURSIVE Concatenate(_, _)
Concatenate(list, t) ==
    IF t > Len(list) THEN <<>>
    ELSE list[t].data \o Concatenate(list, t + 1)

\* Row i of np.concatenate(list, axis=1).
RECURSIVE ConcatenateColumns(_, _, _)
ConcatenateColumns(list, i, t) ==
    IF t > Len(list) THEN <<>>
    ELSE list[t].data[i] \o ConcatenateColumns(list, i, t + 1)

\* The number of entries of one row (first axis) of an array.
RECURSIVE RowSize(_, _)
RowSize(shape, k) ==
    IF k > Len(shape) THEN 1 ELSE shape[k] * RowSize(shape, k + 1)

\* The one entry of a row of one entry.
Scalar(row, rank) ==
    IF rank = 1 THEN row ELSE IF rank = 2 THEN row[1] ELSE row[1][1]

\* _parallel_pairwise, after Parallel: the concatenation along axis 1 and
\* the stack of the blocks of n2 columns along a new last axis.
GatherPairwise(list, n1, n2, n_dims) ==
    LET distance_matrices ==
            Tuple([i \in 1..n1 |-> ConcatenateColumns(list, i, 1)])
    IN [raised |-> "none",
        value |-> [shape |-> <<n1, n2, n_dims>>,
                   data |-> [i \in 1..n1 |-> [j \in 1..n2 |->
                                [k \in 1..n_dims |->
                                    distance_matrices[i][(k - 1) * n2 + j]]]]]]

\* The scalars of the arrays of a list, one after the other.
Scalars(list) ==
    Concatenate([t \in 1..Len(list) |->
                    [shape |-> list[t].shape,
                     data |-> [i \in 1..list[t].shape[1] |->
                                  Scalar(list[t].data[i],
                                         Len(list[t].shape))]]], 1)

\* np.concatenate(list).reshape(n, n_dims): the reshape without the
\* transposition.
GatherScalarsUntransposed(list, n, n_dims) ==
    IF \E t \in 1..Len(list) : RowSize(list[t].shape, 2) # 1
    THEN [raised |-> "ValueError", value |-> None]
    ELSE [raised |-> "none",
          value |-> [shape |-> <<n, n_dims>>,
                     data |-> [i \in 1..n |-> [k \in 1..n_dims |->
                                  Scalars(list)[(i - 1) * n_dims + k]]]]]

\* np.concatenate(list).reshape(n_dims, n).T: ValueError unless the
\* concatenation has n_dims * n entries.
GatherScalars(list, n, n_dims) ==
    IF \E t \in 1..Len(list) : RowSize(list[t].shape, 2) # 1
    THEN [raised |-> "ValueError", value |-> None]
    ELSE LET rows == Scalars(list)
         IN [raised |-> "none",
             value |-> [shape |-> <<n, n_dims>>,
                        data |-> [i \in 1..n |-> [k \in 1..n_dims |->
                                     rows[(k - 1) * n + i]]]]]

\* np.concatenate(list).reshape(n_dims, n, ...).transpose((1, 0, ...)) for
\* arrays whose rows have the shape given to reshape.
GatherRows(list, n, n_dims) ==
    LET rows == Concatenate(list, 1)
    IN [raised |-> "none",
        value |-> [shape |-> <<n, n_dims>> \o Tail(list[1].shape),
                   data |-> [i \in 1..n |-> [k \in 1..n_dims |->
                                rows[(k - 1) * n + i]]]]]

\* What the call does with the list Parallel returned.
Gathered(a, h, list) ==
    LET n_dims == Len(a.homology_dimensions)
    IN CASE a.op = "pairwise" ->
               GatherPairwise(list, h[a.X1].shape[1],
                              h[SlicedBatch(a)].shape[1], n_dims)
         [] a.op \in {"amplitude", "PersistenceEntropy"} ->
               GatherScalars(list, h[a.X1].shape[1], n_dims)
         [] OTHER -> GatherRows(list, h[a.X1].shape[1], n_dims)


(***************************************************************************)
(* Component "engine": one call of _parallel_pairwise, _parallel_amplitude *)
(* or a transform.  The tasks end one at a time, in any order; a task may  *)
(* also fail for a reason of its worker (MemoryError), after which no      *)
(* other task is waited for.                                               *)
(***************************************************************************)
EngineMetrics ==
    {"bottleneck", "wasserstein", "betti", "landscape", "heat",
     "persistence_image"}

EngineTransforms == {"PersistenceEntropy", "BettiCurve", "PersistenceLandscape"}

\* The second batches of _parallel_pairwise for a first batch X.
EngineSeconds(X, dims) == EngineBatchesOf(dims)

\* The attributes fit leaves in an estimator fitted on a batch of the
\* dimensions dims: the same grid of step 1 for every dimension.
FittedVectorizer(kind, dims, n_layers, n_jobs) ==
    [kind |-> kind, n_jobs |-> n_jobs, n_layers |-> n_layers,
     n_bins |-> NBins, homology_dimensions_ |-> dims,
     _n_dimensions |-> Len(dims),
     _samplings |-> [q \in {dims[k] : k \in 1..Len(dims)} |->
                        [k \in 1..NBins |-> k - 1]]]

EngineCall(op, metric, metric_params, n_jobs, X2, dims) ==
    [op |-> op, metric |-> metric, metric_params |-> metric_params,
     n_jobs |-> n_jobs, X1 |-> 1, X2 |-> X2, homology_dimensions |-> dims]

InitEngine ==
    /\ comp = "engine"
    /\ pc = "call"
    /\ \E dims \in EngineDimLists, n_jobs \in 1..MaxJobs :
          \E X \in EngineBatchesOf(dims) :
             /\ X0 = X
             /\ \/ \E metric \in EngineMetrics :
                      /\ self = None
                      /\ \/ /\ heap = <<X>>
                            /\ args = EngineCall("pairwise", metric,
                                          DefaultParams, n_jobs, 0, dims)
                         \/ \E Y \in EngineSeconds(X, dims) :
                               /\ heap = <<X, Y>>
                               /\ args = EngineCall("pairwise", metric,
                                             DefaultParams, n_jobs, 2, dims)
                         \/ \E mp \in EngineParams("amplitude", metric) :
                               /\ heap = <<X>>
                               /\ args = EngineCall("amplitude", metric, mp,
                                             n_jobs, 0, dims)
                \/ \E kind \in EngineTransforms, n_layers \in RecipeLayers :
                      /\ kind # "PersistenceLandscape" => n_layers = 1
                      /\ self = FittedVectorizer(kind, dims, n_layers, n_jobs)
                      /\ heap = <<X>>
                      /\ args = EngineCall(kind, "none", DefaultParams,
                                           n_jobs, 0, dims)
    /\ Xref = 1
    /\ ret = None
    /\ diagrams = None /\ base = None /\ out = None
    /\ pool = None

\* The call up to Parallel: for a transform check_is_fitted and
\* check_diagram(X), then the list of tasks.
EngineDispatch ==
    /\ comp = "engine"
    /\ pc = "call"
    /\ LET raised == IF args.op \in EngineTransforms
                     THEN check_diagram(heap, args.X1, FALSE).raised
                     ELSE "none"
       IN IF raised # "none"
          THEN /\ pc' = "ended"
               /\ out' = [raised |-> raised, value |-> None]
               /\ pool' = pool
          ELSE LET tasks == Tasks(Len(args.homology_dimensions),
                                  heap[SlicedBatch(args)].shape[1],
                                  args.n_jobs)
               IN /\ pc' = "running"
                  /\ pool' = [tasks |-> tasks,
                              results |-> [t \in 1..Len(tasks) |-> Pending],
                              reordered |-> FALSE]
                  /\ out' = out
    /\ UNCHANGED <<comp, heap, Xref, X0, ret, diagrams, base, self, args>>

NoneFailed == \A t \in 1..Len(pool.tasks) : ~HasFailed(pool.results[t])

\* A task ends: its call returns, or raises.  The arrays it is given are
\* its own, so the store stays as it is.  The pool keeps whether a task
\* has ended before one that was handed to Parallel before it.
TaskEnds ==
    /\ comp = "engine"
    /\ pc = "running"
    /\ NoneFailed
    /\ \E t \in 1..Len(pool.tasks) :
          /\ IsPending(pool.results[t])
          /\ LET r == TaskCall(args, self, heap, pool.tasks[t])
             IN pool' = [pool EXCEPT
                            !.results[t] =
                                [raised |-> r.raised, value |-> r.value],
                            !.reordered =
                                @ \/ \E u \in 1..(t - 1) :
                                         IsPending(pool.results[u])]
    /\ UNCHANGED <<comp, pc, heap, Xref, X0, ret, diagrams, base, out, self,
                   args>>

\* A task fails for a reason of its worker.
TaskFails ==
    /\ comp = "engine"
    /\ pc = "running"
    /\ NoneFailed
    /\ \E t \in 1..Len(pool.tasks) :
          /\ IsPending(pool.results[t])
          /\ pool' = [pool EXCEPT !.results[t] =
                         [raised |-> "MemoryError", value |-> None]]
    /\ UNCHANGED <<comp, pc, heap, Xref, X0, ret, diagrams, base, out, self,
                   args>>

\* Parallel returns or raises, and the call ends: with the exception, which
\* nothing catches, or with the array assembled from the results.
EngineReturn ==
    /\ comp = "engine"
    /\ pc = "running"
    /\ \/ ~NoneFailed
       \/ \A t \in 1..Len(pool.tasks) : HasReturned(pool.results[t])
    /\ LET res == Parallel(pool, args, heap)
       IN IF res.raised # "none"
          THEN out' = [raised |-> res.raised, value |-> None]
          ELSE out' = Gathered(args, heap, res.list)
    /\ pc' = "ended"
    /\ UNCHANGED <<comp, heap, Xref, X0, ret, diagrams, base, self, args,
                   pool>>

NextEngine ==
    \/ EngineDispatch
    \/ TaskEnds
    \/ TaskFails
    \/ EngineReturn

SpecEngine == InitEngine /\ [][NextEngine]_vars


(***************************************************************************)
(* Claims about the engine.                                                *)
(***************************************************************************)
\* A call of the engine has ended, and no worker has failed.
EngineEnded(ops) ==
    /\ comp = "engine"
    /\ pc = "ended"
    /\ pool # None
    /\ args.op \in ops
    /\ \A t \in 1..Len(pool.tasks) : pool.results[t].raised # "MemoryError"

\* The slice that holds sample i alone.
Single(i) == <<i - 1, i>>

\* The results of the tasks when the samples are not split: one task for
\* every dimension, run one after the other.
SequentialResults ==
    LET tasks == Tasks(Len(args.homology_dimensions),
                       heap[SlicedBatch(args)].shape[1], 1)
    IN [t \in 1..Len(tasks) |->
           LET r == TaskCall(args, self, heap, tasks[t])
           IN [raised |-> r.raised, value |-> r.value]]

\* What the call returns or raises when the samples are not split.
SequentialOutcome ==
    LET results == Tuple(SequentialResults)
    IN IF \E t \in 1..Len(results) : HasFailed(results[t])
       THEN [raised |-> results[FirstFailed(results)].raised, value |-> None]
       ELSE Gathered(args, heap,
                     [t \in 1..Len(results) |-> results[t].value])

\* What the amplitude function of the metric returns for sample i alone in
\* the k-th dimension.
AmplitudeOfSample(i, k) ==
    TaskCall(args, self, heap, [dim |-> k, s |-> Single(i)])

AmplitudeLayout(metrics) ==
    (EngineEnded({"amplitude"}) /\ args.metric \in metrics)
    => LET n == heap[args.X1].shape[1]
           n_dims == Len(args.homology_dimensions)
       IN /\ \A i \in 1..n : \A k \in 1..n_dims :
                /\ AmplitudeOfSample(i, k).raised = "none"
                /\ AmplitudeOfSample(i, k).value.shape = <<1>>
          /\ out.raised = "none"
          /\ out.value.shape = <<n, n_dims>>

\* C14: for each of the six metric names the amplitude function returns
\* one scalar for every sample of its chunk, and _parallel_amplitude
\* returns an array of shape (n_samples, n_dimensions).
C14_AmplitudeOfEveryMetric == AmplitudeLayout(EngineMetrics)

\* The part of C14 about the five other metrics.
C14_AllButPersistenceImage ==
    AmplitudeLayout(EngineMetrics \ {"persistence_image"})

\* _parallel_amplitude has raised for the metric persistence_image.
C14_PersistenceImageRaises ==
    /\ EngineEnded({"amplitude"})
    /\ args.metric = "persistence_image"
    /\ out.raised \in {"TypeError", "ValueError"}

\* The distance of the recipe between sample i of X1 and sample j of X2 in
\* the k-th dimension.
DistanceOfPair(i, j, k) ==
    LET dim == args.homology_dimensions[k]
    IN implemented_metric_recipes(args.metric,
           _subdiagrams(Rows(heap[args.X1], Single(i)), dim),
           _subdiagrams(Rows(heap[SlicedBatch(args)], Single(j)), dim),
           EngineSampling(args.metric), EngineStepSize(args.metric),
           Popped(args.metric_params))

PairwiseLayout(metrics) ==
    (EngineEnded({"pairwise"}) /\ args.metric \in metrics)
    => LET n1 == heap[args.X1].shape[1]
           n2 == heap[SlicedBatch(args)].shape[1]
           n_dims == Len(args.homology_dimensions)
       IN /\ out.raised = "none"
          /\ out.value.shape = <<n1, n2, n_dims>>
          /\ \A i \in 1..n1 : \A j \in 1..n2 : \A k \in 1..n_dims :
                out.value.data[i][j][k]
                   = DistanceOfPair(i, j, k).value.data[1][1]

\* C17: _parallel_pairwise returns an array D of shape (n_samples_1,
\* n_samples_2, n_dimensions) with D[i][j][k] the distance of the recipe
\* between sample i of X1 and sample j of X2 in the k-th dimension, for
\* every number of slices of the second batch and every order in which the
\* tasks end.
C17_PairwiseLayout == PairwiseLayout(EngineMetrics)

\* The part of C17 about the five metrics whose recipe returns.
C17_AllButPersistenceImage ==
    PairwiseLayout(EngineMetrics \ {"persistence_image"})

\* _parallel_pairwise has raised for the metric persistence_image.
C17_PersistenceImageRaises ==
    /\ EngineEnded({"pairwise"})
    /\ args.metric = "persistence_image"
    /\ out.raised = "IndexError"

\* The distances of two batches of two samples, split in two slices whose
\* tasks did not end in the order they were handed out.
C17_ReorderedWitness ==
    /\ EngineEnded({"pairwise"})
    /\ out.raised = "none"
    /\ args.X2 # 0
    /\ out.value.shape = <<2, 2, 2>>
    /\ pool.reordered

\* What the function of a task computes for sample i alone in the k-th
\* dimension: a scalar for the amplitudes and the entropy, a curve or a
\* landscape for the others.
ValueOfSample(i, k) ==
    LET r == TaskCall(args, self, heap, [dim |-> k, s |-> Single(i)])
    IN IF args.op \in {"amplitude", "PersistenceEntropy"}
       THEN Scalar(r.value.data[1], Len(r.value.shape))
       ELSE r.value.data[1]

\* C18: the array _parallel_amplitude and the transforms of
\* PersistenceEntropy, BettiCurve and PersistenceLandscape return holds at
\* [i][k] the value the function of the tasks computes for sample i in the
\* k-th dimension, and the call ends as it does when the samples are not
\* split, whatever n_jobs is.
C18_GatherPlacesPerSampleValues ==
    EngineEnded({"amplitude"} \cup EngineTransforms)
    => /\ out = SequentialOutcome
       /\ out.raised = "none"
          => /\ out.value.shape[1] = heap[args.X1].shape[1]
             /\ out.value.shape[2] = Len(args.homology_dimensions)
             /\ \A i \in 1..out.value.shape[1] :
                   \A k \in 1..out.value.shape[2] :
                      out.value.data[i][k] = ValueOfSample(i, k)

\* A transform on two samples and two dimensions with more workers than
\* samples, whose tasks did not end in the order they were handed out.
C18_Witness ==
    /\ EngineEnded(EngineTransforms)
    /\ out.raised = "none"
    /\ args.n_jobs > heap[args.X1].shape[1]
    /\ out.value.shape[1] = 2
    /\ out.value.shape[2] = 2
    /\ pool.reordered
    /\ out.value.data[1][2] # out.value.data[2][1]

\* The same for _parallel_amplitude.
C18_AmplitudeWitness ==
    /\ EngineEnded({"amplitude"})
    /\ out.raised = "none"
    /\ out.value.shape = <<2, 2>>
    /\ pool.reordered
    /\ out.value.data[1][2] # out.value.data[2][1]

\* C19: if a task of _parallel_pairwise, of _parallel_amplitude or of a
\* transform fails, the call raises and returns no array; and no array is
\* returned before every task has returned.
C19_TaskFailureFailsTheCall ==
    comp = "engine"
    => /\ pc = "running" => out = None
       /\ (pc = "ended" /\ pool # None)
          => IF \E t \in 1..Len(pool.tasks) : ~HasReturned(pool.results[t])
             THEN /\ out.raised # "none"
                  /\ out.value = None
                  /\ \E t \in 1..Len(pool.tasks) : HasFailed(pool.results[t])
             ELSE TRUE

\* A call that raised after one of its tasks had returned and another had
\* failed in its worker.
C19_Witness ==
    /\ comp = "engine"
    /\ pc = "ended"
    /\ pool # None
    /\ \E t, u \in 1..Len(pool.tasks) :
          /\ pool.results[t].raised = "MemoryError"
          /\ HasReturned(pool.results[u])
    /\ out.raised = "MemoryError"


(***************************************************************************)
(* Component "params": one call of validate_metric_params(metric,          *)
(* metric_params).  A Python value is its type and, for a number, its      *)
(* value; a finite number is m * 10 ** e with one digit m, which holds     *)
(* 1e-16 exactly.                                                          *)
(***************************************************************************)
\* metric_params has at most MaxParams keys.
MaxParams == 2

Sci(m, e) == [k |-> "sci", m |-> m, e |-> e]

\* a < b for two finite numbers.
SciLess(a, b) ==
    CASE a.m < 0 /\ b.m >= 0 -> TRUE
      [] a.m < 0 /\ b.m < 0 -> a.e > b.e \/ (a.e = b.e /\ a.m < b.m)
      [] a.m = 0 -> b.m > 0
      [] OTHER -> b.m > 0 /\ (a.e < b.e \/ (a.e = b.e /\ a.m < b.m))

\* Python's a < b for ints and floats: False if either is NaN.
Below(a, b) ==
    CASE a.k = "nan" \/ b.k = "nan" -> FALSE
      [] a.k = "inf" -> FALSE
      [] b.k = "inf" -> TRUE
      [] OTHER -> SciLess(a, b)

IntValue(m) == [type |-> "int", v |-> Sci(m, 0)]

FloatValue(x) == [type |-> "float", v |-> x]

StrValue == [type |-> "str", v |-> None]

FunctionValue == [type |-> "function", v |-> None]

\* isinstance(value, param_type) for the types of available_metrics and of
\* the _hyperparameters tables.
isinstance(value, param_type) ==
    CASE param_type = "numbers.Number" -> value.type \in {"int", "float"}
      [] param_type = "int" -> value.type = "int"
      [] param_type = "types.FunctionType" -> value.type = "function"
      [] param_type = "float" -> value.type = "float"
      [] param_type = "list" -> value.type = "list"
      [] param_type = "np.ndarray" -> value.type = "np.ndarray"
      [] param_type = "np.bool_" -> value.type = "np.bool_"

Range(low, high) == [k |-> "range", low |-> low, high |-> high]

UnitInterval == Range(Sci(0, 0), Sci(1, 0))

FromOne == Range(Sci(1, 0), PosInf)

FromZero == Range(Sci(0, 0), PosInf)

PParam == <<"p", "numbers.Number", FromOne>>

NBinsParam == <<"n_bins", "int", FromOne>>

SigmaParam == <<"sigma", "numbers.Number", FromZero>>

\* available_metrics: for every metric the list of (param, param_type,
\* param_values).
available_metrics ==
    [metric \in EngineMetrics |->
        CASE metric = "bottleneck" ->
                 << <<"delta", "numbers.Number", UnitInterval>> >>
          [] metric = "wasserstein" ->
                 << <<"p", "int", FromOne>>,
                    <<"delta", "numbers.Number",
                      Range(Sci(1, -16), Sci(1, 0))>> >>
          [] metric = "betti" -> <<PParam, NBinsParam>>
          [] metric = "landscape" ->
                 <<PParam, NBinsParam, <<"n_layers", "int", FromOne>> >>
          [] metric = "heat" -> <<PParam, NBinsParam, SigmaParam>>
          [] metric = "persistence_image" ->
                 <<PParam, NBinsParam, SigmaParam,
                   <<"weight_function", "types.FunctionType", None>> >>]

available_metric_params ==
    [metric \in EngineMetrics |->
        {available_metrics[metric][k][1] :
            k \in 1..Len(available_metrics[metric])}]

\* The first loop of validate_metric_params from the k-th entry of the
\* list on: the exception of the first entry that fails, or "none".
RECURSIVE ValidatedFrom(_, _, _)
ValidatedFrom(list, metric_params, k) ==
    IF k > Len(list) THEN "none"
    ELSE LET param == list[k][1]
             param_type == list[k][2]
             param_values == list[k][3]
         IN IF param \in DOMAIN metric_params
            THEN LET input_param == metric_params[param]
                 IN IF ~isinstance(input_param, param_type)
                    THEN "TypeError"
                    ELSE IF /\ param_values # None
                            /\ \/ Below(input_param.v, param_values.low)
                               \/ Below(param_values.high, input_param.v)
                         THEN "ValueError"
                         ELSE ValidatedFrom(list, metric_params, k + 1)
            ELSE ValidatedFrom(list, metric_params, k + 1)

\* validate_metric_params(metric, metric_params): what it raises.  It has
\* no statement that writes to metric_params.
validate_metric_params(metric, metric_params) ==
    IF metric \notin DOMAIN available_metrics
    THEN "ValueError"
    ELSE LET raised == ValidatedFrom(available_metrics[metric],
                                     metric_params, 1)
         IN IF raised # "none" THEN raised
            ELSE IF \E param \in DOMAIN metric_params :
                       param \notin available_metric_params[metric]
                 THEN "ValueError"
                 ELSE "none"

\* The arguments: the six metrics and a name that is none of them; the
\* keys of the six metrics and a key of none; ints, floats (with NaN and
\* inf), a string and a function as values.
ParamMetrics == EngineMetrics \cup {"euclidean"}

ParamKeys ==
    {"p", "delta", "n_bins", "n_layers", "sigma", "weight_function", "order"}

ParamValues ==
    {IntValue(0), IntValue(1), FloatValue(Sci(1, -17)), FloatValue(Sci(5, -1)),
     FloatValue(Sci(2, 0)), FloatValue(NaN), FloatValue(PosInf), StrValue,
     FunctionValue}

ParamDicts ==
    UNION {[keys -> ParamValues] :
              keys \in {K \in SUBSET ParamKeys : Cardinality(K) <= MaxParams}}

InitParams ==
    /\ comp = "params"
    /\ pc = "call"
    /\ \E metric \in ParamMetrics, metric_params \in ParamDicts :
          /\ heap = <<metric_params>>
          /\ X0 = metric_params
          /\ args = [metric |-> metric, metric_params |-> 1]
    /\ Xref = 1
    /\ ret = None
    /\ diagrams = None /\ base = None /\ out = None /\ self = None
    /\ pool = None

ValidateMetricParams ==
    /\ comp = "params"
    /\ pc = "call"
    /\ out' = [raised |-> validate_metric_params(args.metric,
                                                 heap[args.metric_params]),
               value |-> None]
    /\ pc' = "ended"
    /\ UNCHANGED <<comp, heap, Xref, X0, ret, diagrams, base, self, args,
                   pool>>

NextParams == ValidateMetricParams

SpecParams == InitParams /\ [][NextParams]_vars

(***************************************************************************)
(* Claims about validate_metric_params.                                    *)
(***************************************************************************)
\* low <= x <= high: x is a number of the closed range.
InClosedRange(x, range) ==
    /\ x.k # "nan"
    /\ x = range.low \/ Below(range.low, x)
    /\ x = range.high \/ Below(x, range.high)

\* A parameter of the metric is supplied with the wrong type, or with a
\* value outside the closed range of the parameter.
SomeParamInvalid(metric, metric_params) ==
    \E k \in 1..Len(available_metrics[metric]) :
        LET entry == available_metrics[metric][k]
        IN /\ entry[1] \in DOMAIN metric_params
           /\ \/ ~isinstance(metric_params[entry[1]], entry[2])
              \/ /\ entry[3] # None
                 /\ ~InClosedRange(metric_params[entry[1]].v, entry[3])

\* metric_params has a key that is no parameter of the metric.
SomeKeyUnknown(metric, metric_params) ==
    \E param \in DOMAIN metric_params :
        param \notin available_metric_params[metric]

MustRaise(metric, metric_params) ==
    \/ metric \notin EngineMetrics
    \/ SomeParamInvalid(metric, metric_params)
    \/ SomeKeyUnknown(metric, metric_params)

Validated == comp = "params" /\ pc = "ended"

HoldsNaN(metric_params) ==
    \E param \in DOMAIN metric_params : metric_params[param].v = NaN

RaisesWhenItMust(dicts) ==
    (Validated /\ X0 \in dicts)
    => /\ out.raised # "none" <=> MustRaise(args.metric, X0)
       /\ heap[args.metric_params] = X0

\* C20: validate_metric_params raises, and leaves metric_params as it
\* was, if the metric is none of the six, if a supplied parameter of the
\* metric has the wrong type or a value outside its closed range
\* [low, high], or if metric_params has a key that is no parameter of the
\* metric; in every other case it returns, also when parameters are
\* omitted.
C20_RaisesExactlyOnInvalidParams == RaisesWhenItMust(ParamDicts)

\* The same for the metric_params that hold no NaN.
C20_WithoutNaN ==
    RaisesWhenItMust({d \in ParamDicts : ~HoldsNaN(d)})

\* validate_metric_params has returned for a sigma that is NaN.
C20_NaNAccepted ==
    /\ Validated
    /\ args.metric = "heat"
    /\ X0 = [param \in {"sigma"} |-> FloatValue(NaN)]
    /\ out.raised = "none"

\* validate_metric_params has returned for a metric_params that omits
\* parameters of the metric.
C20_OmittedAccepted ==
    /\ Validated
    /\ args.metric = "landscape"
    /\ DOMAIN X0 = {"n_layers"}
    /\ out.raised = "none"


(***************************************************************************)
(* validate_params(parameters, references) and the _hyperparameters tables *)
(* of the estimators.  A table is the list of its (key, type, second       *)
(* entry) in the order of the dictionary.                                  *)
(***************************************************************************)
NoneValue == [type |-> "NoneType", v |-> None]

ListValue(items) == [type |-> "list", v |-> items]

ArrayValue(items) == [type |-> "np.ndarray", v |-> items]

BoolValue(b) == [type |-> "np.bool_", v |-> b]

\* The second entry of a reference to a list or an array: the type of the
\* elements and their range or None.
ElementsOf(type, range) == [k |-> "elements", type |-> type, range |-> range]

\* A reference of one entry: a type and nothing else.
TypeOnly == [k |-> "absent"]

_hyperparameters ==
    [kind \in {"BettiCurve", "PersistenceLandscape", "HeatKernel",
               "PersistenceImage", "Silhouette", "CubicalPersistence"} |->
        CASE kind = "BettiCurve" -> <<NBinsParam>>
          [] kind = "PersistenceLandscape" ->
                 << <<"n_layers", "int", FromOne>>, NBinsParam >>
          [] kind = "HeatKernel" ->
                 << <<"sigma", "numbers.Number", Range(Sci(1, -16), PosInf)>>,
                    NBinsParam >>
          [] kind = "PersistenceImage" ->
                 << <<"sigma", "numbers.Number", Range(Sci(1, -16), PosInf)>>,
                    NBinsParam,
                    <<"effective_weight_function_", "types.FunctionType",
                      None>> >>
          [] kind = "Silhouette" ->
                 << <<"order", "float", FromZero>>, NBinsParam >>
          [] kind = "CubicalPersistence" ->
                 << <<"_homology_dimensions", "list",
                      ElementsOf("int", FromZero)>>,
                    <<"coeff", "int", Range(Sci(2, 0), PosInf)>>,
                    <<"periodic_dimensions_", "np.ndarray",
                      ElementsOf("np.bool_", None)>>,
                    <<"infinity_values_", "numbers.Number", None>> >>]

\* float(parameter).is_integer()
is_integer(x) == x.k = "sci" /\ (x.m = 0 \/ x.e >= 0)

\* parameter < low or parameter > high
OutOfRange(x, range) == Below(x, range.low) \/ Below(range.high, x)

\* The loop over the elements of a list or an array from the i-th on: the
\* exception raised, or "none" when the loop ends or is left by break.
RECURSIVE ElementsValidated(_, _, _)
ElementsValidated(items, second, i) ==
    IF i > Len(items) THEN "none"
    ELSE LET parameter == items[i]
             wrong == IF second.type = "int"
                      THEN \/ ~isinstance(parameter, "numbers.Number")
                           \/ ~is_integer(parameter.v)
                      ELSE ~isinstance(parameter, second.type)
         IN IF wrong THEN "TypeError"
            ELSE IF second.range = None THEN "none"
            ELSE IF OutOfRange(parameter.v, second.range) THEN "ValueError"
            ELSE ElementsValidated(items, second, i + 1)

\* validate_params from the k-th key of the table on: the exception
\* raised, or "none" when the loop over the keys ends or is left by break.
\* The break after the loop over the elements of a list or an array leaves
\* the loop over the keys; references[key][1][1] of a scalar whose second
\* entry is None subscripts None.
RECURSIVE validate_params(_, _, _)
validate_params(parameters, references, k) ==
    IF k > Len(references) THEN "none"
    ELSE LET key == references[k][1]
             type == references[k][2]
             second == references[k][3]
         IN IF ~isinstance(parameters[key], type) THEN "TypeError"
            ELSE IF second = TypeOnly
                 THEN validate_params(parameters, references, k + 1)
            ELSE IF type \in {"list", "np.ndarray"}
                 THEN ElementsValidated(parameters[key].v, second, 1)
            ELSE IF second = None THEN "TypeError"
            ELSE IF second.high = None THEN "none"
            ELSE IF OutOfRange(parameters[key].v, second) THEN "ValueError"
            ELSE validate_params(parameters, references, k + 1)


(***************************************************************************)
(* Component "estimator": one estimator object and the calls of fit and    *)
(* transform made on it, one after the other.  self holds the parameters   *)
(* given to __init__ and the attributes written since; out is the list of  *)
(* the calls made, each with what it raised and the attributes it left.    *)
(***************************************************************************)
\* At most MaxCalls calls are made on an estimator.
MaxCalls == 3

Vectorizers ==
    {"PersistenceEntropy", "BettiCurve", "PersistenceLandscape", "HeatKernel",
     "PersistenceImage", "Silhouette"}

Estimators == Vectorizers \cup {"TransitionGraph", "CubicalPersistence"}

\* {**f, **g}
Merged(f, g) ==
    [x \in DOMAIN f \cup DOMAIN g |-> IF x \in DOMAIN g THEN g[x] ELSE f[x]]

\* {name: value}
Attr(name, value) == [x \in {name} |-> value]

NoAttrs == <<>>

\* _bin(X, metric, n_bins) and _calculate_weights(X, weight_function,
\* samplings): what they return is kept as the call that was made.
_bin(X, metric, n_bins) ==
    [fn |-> "_bin", X |-> X, metric |-> metric, n_bins |-> n_bins]

_calculate_weights(X, weight_function, samplings) ==
    [fn |-> "_calculate_weights", X |-> X,
     weight_function |-> weight_function, samplings |-> samplings]

\* The names with a trailing underscore among the attributes the fits write.
TrailingUnderscore ==
    {"homology_dimensions_", "samplings_", "weights_",
     "effective_weight_function_", "periodic_dimensions_", "infinity_values_"}

\* A list of attribute names.
Names(names) == [k |-> "names", names |-> names]

\* check_is_fitted(estimator, attributes) of sklearn: with attributes None
\* the estimator has an attribute whose name ends with an underscore, else
\* it has all the attributes named.  FALSE stands for NotFittedError.
check_is_fitted(attrs, attributes) ==
    IF attributes.k = "none"
    THEN DOMAIN attrs \cap TrailingUnderscore # {}
    ELSE attributes.names \subseteq DOMAIN attrs

\* sorted() of a tuple of numbers.
RECURSIVE sorted(_)
sorted(values) ==
    IF values = <<>> THEN <<>>
    ELSE LET least == CHOOSE i \in 1..Len(values) :
                          \A j \in 1..Len(values) :
                              \/ j = i
                              \/ Below(values[i].v, values[j].v)
                              \/ ~Below(values[j].v, values[i].v) /\ i < j
         IN <<values[least]>>
            \o sorted([j \in 1..(Len(values) - 1) |->
                          IF j < least THEN values[j] ELSE values[j + 1]])

\* The metric name given to _bin by the fit of a vectorizer.
BinMetric(kind) ==
    CASE kind = "BettiCurve" -> "betti"
      [] kind = "PersistenceLandscape" -> "landscape"
      [] kind = "HeatKernel" -> "heat"
      [] kind = "PersistenceImage" -> "persistence_image"
      [] kind = "Silhouette" -> "silhouette"

\* fit of the estimators of features.py on the batch X: what it raises and
\* the attributes of the estimator when it ends.
VectorizerFit(kind, params, attrs, X) ==
    LET checked == check_diagram(<<X>>, 1, FALSE).raised
        first == IF kind # "PersistenceImage" THEN attrs
                 ELSE Merged(attrs, Attr("effective_weight_function_",
                          IF params["weight_function"] = NoneValue
                          THEN FunctionValue ELSE params["weight_function"]))
        validated == IF kind = "PersistenceEntropy" THEN "none"
                     ELSE validate_params(Merged(params, first),
                                          _hyperparameters[kind], 1)
        dims == Sorted(FirstSampleDims(X))
        second == Merged(first, [x \in {"homology_dimensions_",
                                        "_n_dimensions"} |->
                                    IF x = "_n_dimensions" THEN Len(dims)
                                    ELSE dims])
        bins == _bin(X, BinMetric(kind), params["n_bins"])
        third == IF kind \in {"HeatKernel", "PersistenceImage"}
                 THEN Merged(second, [x \in {"_samplings", "_step_size",
                                             "samplings_"} |-> bins])
                 ELSE Merged(second, [x \in {"_samplings", "samplings_"} |->
                                          bins])
    IN IF checked # "none" THEN [raised |-> checked, attrs |-> attrs]
       ELSE IF validated # "none" THEN [raised |-> validated, attrs |-> first]
       ELSE IF kind = "PersistenceEntropy"
            THEN [raised |-> "none", attrs |-> second]
       ELSE IF kind = "PersistenceImage"
            THEN [raised |-> "none",
                  attrs |-> Merged(third, Attr("weights_",
                      _calculate_weights(X,
                          first["effective_weight_function_"], bins)))]
       ELSE [raised |-> "none", attrs |-> third]

\* TransitionGraph.fit
TransitionGraphFit(attrs) ==
    [raised |-> "none", attrs |-> Merged(attrs, Attr("_is_fitted", TRUE))]

\* np.sum(self.periodic_dimensions) == 0
NonePeriodic(periodic_dimensions) ==
    \A i \in 1..Len(periodic_dimensions.v) : ~periodic_dimensions.v[i].v

\* CubicalPersistence.fit on the images X: len(X) is the number of images.
CubicalPersistenceFit(params, attrs, X) ==
    LET periodic == params["periodic_dimensions"]
        periodic_dimensions_ ==
            IF periodic = NoneValue \/ NonePeriodic(periodic)
            THEN ArrayValue([i \in 1..(X.shape[1] - 1) |-> BoolValue(FALSE)])
            ELSE ArrayValue(periodic.v)
        infinity_values_ ==
            IF params["infinity_values"] = NoneValue THEN FloatValue(X.max)
            ELSE params["infinity_values"]
        _homology_dimensions ==
            ListValue(sorted(params["homology_dimensions"].v))
        written ==
            Merged(attrs,
                [x \in {"_filtration", "periodic_dimensions_",
                        "infinity_values_", "_homology_dimensions"} |->
                    CASE x = "_filtration" ->
                             IF periodic = NoneValue \/ NonePeriodic(periodic)
                             THEN "CubicalComplex"
                             ELSE "PeriodicCubicalComplex"
                      [] x = "periodic_dimensions_" -> periodic_dimensions_
                      [] x = "infinity_values_" -> infinity_values_
                      [] x = "_homology_dimensions" -> _homology_dimensions])
        validated == validate_params(Merged(params, written),
                                     _hyperparameters["CubicalPersistence"], 1)
    IN IF validated # "none" THEN [raised |-> validated, attrs |-> written]
       ELSE IF ~X.finite THEN [raised |-> "ValueError", attrs |-> written]
       ELSE [raised |-> "none",
             attrs |-> Merged(written, Attr("_max_homology_dimension",
                  _homology_dimensions.v[Len(_homology_dimensions.v)]))]

fit(est, X) ==
    CASE est.kind \in Vectorizers ->
             VectorizerFit(est.kind, est.params, est.attrs, X)
      [] est.kind = "TransitionGraph" -> TransitionGraphFit(est.attrs)
      [] est.kind = "CubicalPersistence" ->
             CubicalPersistenceFit(est.params, est.attrs, X)

\* What a call of transform can be followed to from outside: what it
\* raised, whether it had validated its input and handed tasks to
\* Parallel, and the attribute the tasks are built from.
TransformOutcome(raised, validated, dispatched, dims) ==
    [raised |-> raised, validated |-> validated, dispatched |-> dispatched,
     dims |-> dims]

\* transform: the outcomes it can have.  What the tasks of TransitionGraph
\* and of CubicalPersistence do is not followed here.
transform(est, X) ==
    CASE est.kind \in Vectorizers ->
             LET checked == check_diagram(<<X>>, 1,
                     est.kind \in {"HeatKernel", "PersistenceImage"}).raised
             IN IF ~check_is_fitted(est.attrs, None)
                THEN {TransformOutcome("NotFittedError", FALSE, FALSE, None)}
                ELSE IF checked # "none"
                THEN {TransformOutcome(checked, TRUE, FALSE, None)}
                ELSE IF "homology_dimensions_" \notin DOMAIN est.attrs
                THEN {TransformOutcome("AttributeError", TRUE, FALSE, None)}
                ELSE {TransformOutcome("none", TRUE, TRUE,
                                       est.attrs["homology_dimensions_"])}
      [] est.kind = "TransitionGraph" ->
             IF ~check_is_fitted(est.attrs, Names({"_is_fitted"}))
             THEN {TransformOutcome("NotFittedError", FALSE, FALSE, None)}
             ELSE {TransformOutcome("none", FALSE, TRUE, None)}
      [] est.kind = "CubicalPersistence" ->
             IF ~check_is_fitted(est.attrs, None)
             THEN {TransformOutcome("NotFittedError", FALSE, FALSE, None)}
             ELSE {TransformOutcome(e, FALSE, TRUE, None) :
                      e \in {"none", "Exception"}}

\* The arguments: batches of one sample, of one dimension or of the
\* dimensions 2 and 0 in this order, and a batch with a point below the
\* diagonal; images of two axes (one or three of them) and of
\* three axes, and images that hold a NaN.
EstimatorDiagrams ==
    {b \in EngineBatchesOf(<<Num(0)>>) \cup EngineBatchesOf(<<Num(2), Num(0)>>) :
        b.shape[1] = 1}
        \cup {[shape |-> <<1, 1, 3>>, data |-> << << <<1, 0, Num(0)>> >> >>]}

Images(shape, finite) ==
    [shape |-> shape, max |-> IF finite THEN Sci(1, 0) ELSE NaN,
     finite |-> finite]

EstimatorImages ==
    {Images(<<1, 2, 2>>, TRUE), Images(<<3, 2, 2>>, TRUE),
     Images(<<2, 2, 2, 2>>, TRUE), Images(<<3, 2, 2>>, FALSE)}

EstimatorBatches(kind) ==
    IF kind \in Vectorizers THEN EstimatorDiagrams ELSE EstimatorImages

\* The parameters given to __init__: valid ones, and for each table a
\* value of the wrong type or outside the range.
NBinsValues == {IntValue(NBins), IntValue(0)}

EstimatorParams(kind) ==
    CASE kind \in {"PersistenceEntropy", "TransitionGraph"} -> {<<>>}
      [] kind = "BettiCurve" ->
             {[x \in {"n_bins"} |-> n] : n \in NBinsValues \cup {StrValue}}
      [] kind = "PersistenceLandscape" ->
             {[x \in {"n_layers", "n_bins"} |->
                  IF x = "n_bins" THEN n ELSE l] :
                 n \in NBinsValues, l \in {IntValue(1), IntValue(0)}}
      [] kind = "HeatKernel" ->
             {[x \in {"sigma", "n_bins"} |-> IF x = "n_bins" THEN n ELSE s] :
                 n \in NBinsValues,
                 s \in {FloatValue(Sci(1, 0)), FloatValue(Sci(0, 0))}}
      [] kind = "PersistenceImage" ->
             {[x \in {"sigma", "n_bins", "weight_function"} |->
                  CASE x = "n_bins" -> n
                    [] x = "sigma" -> s
                    [] x = "weight_function" -> w] :
                 n \in NBinsValues,
                 s \in {FloatValue(Sci(1, 0)), FloatValue(Sci(0, 0))},
                 w \in {NoneValue, FunctionValue}}
      [] kind = "Silhouette" ->
             {[x \in {"order", "n_bins"} |-> IF x = "n_bins" THEN n ELSE o] :
                 n \in NBinsValues,
                 o \in {FloatValue(Sci(1, 0)), IntValue(1)}}
      [] kind = "CubicalPersistence" ->
             {[x \in {"homology_dimensions", "coeff", "periodic_dimensions",
                      "infinity_values"} |->
                  CASE x = "homology_dimensions" -> ListValue(d)
                    [] x = "coeff" -> c
                    [] x = "periodic_dimensions" -> p
                    [] x = "infinity_values" -> NoneValue] :
                 d \in {<<IntValue(0), IntValue(1)>>,
                        <<IntValue(1), IntValue(0)>>, <<IntValue(-1)>>},
                 c \in {IntValue(2), IntValue(1), StrValue},
                 p \in {NoneValue,
                        ListValue(<<BoolValue(FALSE), BoolValue(FALSE)>>),
                        ListValue(<<BoolValue(TRUE), BoolValue(FALSE)>>)}}

InitEstimator ==
    /\ comp = "estimator"
    /\ pc = "idle"
    /\ \E kind \in Estimators : \E params \in EstimatorParams(kind) :
          self = [kind |-> kind, params |-> params, attrs |-> NoAttrs]
    /\ out = <<>>
    /\ heap = <<>> /\ Xref = 0 /\ X0 = None /\ ret = None
    /\ diagrams = None /\ base = None /\ args = None /\ pool = None

\* est.fit(X)
Fit ==
    /\ comp = "estimator"
    /\ Len(out) < MaxCalls
    /\ \E X \in EstimatorBatches(self.kind) :
          LET r == fit(self, X)
          IN /\ self' = [self EXCEPT !.attrs = r.attrs]
             /\ out' = Append(out, [call |-> "fit", X |-> X,
                                    raised |-> r.raised, validated |-> TRUE,
                                    dispatched |-> FALSE, dims |-> None,
                                    attrs |-> r.attrs])
    /\ UNCHANGED <<comp, pc, heap, Xref, X0, ret, diagrams, base, args, pool>>

\* est.transform(X): no statement of a transform writes to self.
Transform ==
    /\ comp = "estimator"
    /\ Len(out) < MaxCalls
    /\ \E X \in EstimatorBatches(self.kind) : \E r \in transform(self, X) :
          out' = Append(out, [call |-> "transform", X |-> X,
                              raised |-> r.raised, validated |-> r.validated,
                              dispatched |-> r.dispatched, dims |-> r.dims,
                              attrs |-> self.attrs])
    /\ UNCHANGED <<comp, pc, heap, Xref, X0, ret, diagrams, base, self, args,
                   pool>>

NextEstimator ==
    \/ Fit
    \/ Transform

SpecEstimator == InitEstimator /\ [][NextEstimator]_vars


(***************************************************************************)
(* Claims about validate_params and the fits.                              *)
(***************************************************************************)
\* The last call of the estimator.
LastCall == out[Len(out)]

\* A fit has ended that reached its call of validate_params: the fits of
\* features.py call check_diagram first.
FitValidated(kinds) ==
    /\ comp = "estimator"
    /\ out # <<>>
    /\ LastCall.call = "fit"
    /\ self.kind \in kinds
    /\ self.kind \in Vectorizers
          => check_diagram(<<LastCall.X>>, 1, FALSE).raised = "none"

\* The dictionary the fit gave to validate_params: the parameters of
\* __init__ and the attributes written before the call.
ValidatedParameters == Merged(self.params, LastCall.attrs)

\* The value is not of the type of the reference, or not in its closed
\* range.
InvalidScalar(value, type, range) ==
    \/ ~isinstance(value, type)
    \/ /\ range # None
       /\ range.k = "range"
       /\ ~InClosedRange(value.v, range)

\* The parameter of the k-th key of the table is of the wrong type, or is
\* out of range, or is a list or an array with such an element.
InvalidParameter(parameters, references, k) ==
    LET value == parameters[references[k][1]]
        second == references[k][3]
    IN \/ InvalidScalar(value, references[k][2], second)
       \/ /\ isinstance(value, references[k][2])
          /\ second # None
          /\ second.k = "elements"
          /\ \E i \in 1..Len(value.v) :
                InvalidScalar(value.v[i], second.type, second.range)

EveryKeyChecked(kinds) ==
    FitValidated(kinds)
    => ((\E k \in 1..Len(_hyperparameters[self.kind]) :
            InvalidParameter(ValidatedParameters,
                             _hyperparameters[self.kind], k))
        => LastCall.raised # "none")

TableKinds == Estimators \ {"PersistenceEntropy", "TransitionGraph"}

\* C21: validate_params checks every key of the table of references: a fit
\* raises if any parameter of the table is of the wrong type or out of
\* range, whatever the position of its key and the kinds (scalar, list,
\* array) of the keys before it; the fit of CubicalPersistence with coeff
\* below 2 is rejected.
C21_EveryKeyChecked == EveryKeyChecked(TableKinds)

\* The same for the tables that hold no list and no array before another
\* key.
C21_ScalarTables == EveryKeyChecked(TableKinds \ {"CubicalPersistence"})

\* A fit of a table of two scalars has raised for its second key.
C21_SecondKeyRejected ==
    /\ FitValidated({"PersistenceLandscape"})
    /\ self.params["n_layers"] = IntValue(1)
    /\ self.params["n_bins"] = IntValue(0)
    /\ LastCall.raised = "ValueError"

\* The fit of CubicalPersistence has returned for coeff = 1.
C21_CoeffAccepted ==
    /\ FitValidated({"CubicalPersistence"})
    /\ self.params["coeff"] = IntValue(1)
    /\ LastCall.raised = "none"

\* The fit of CubicalPersistence has returned for a coeff that is a string.
C21_StrCoeffAccepted ==
    /\ FitValidated({"CubicalPersistence"})
    /\ self.params["coeff"] = StrValue
    /\ LastCall.raised = "none"


\* No parameter of the table of the estimator is invalid.
ValidHyperparameters ==
    \A k \in 1..Len(_hyperparameters[self.kind]) :
        ~InvalidParameter(ValidatedParameters, _hyperparameters[self.kind], k)

\* C22: the fit of PersistenceImage on a valid batch with valid
\* hyperparameters raises no error: validate_params accepts a parameter
\* whose reference has a type and no range (None), and the fit stores
\* effective_weight_function_, homology_dimensions_, samplings_ and
\* weights_.
C22_FitOfPersistenceImage ==
    (FitValidated({"PersistenceImage"}) /\ ValidHyperparameters)
    => /\ LastCall.raised = "none"
       /\ {"effective_weight_function_", "homology_dimensions_",
           "samplings_", "weights_"} \subseteq DOMAIN self.attrs

\* The fit of PersistenceImage on a valid batch raises, whatever its
\* hyperparameters are, and stores none of homology_dimensions_,
\* samplings_ and weights_.
C22_FitAlwaysRaises ==
    FitValidated({"PersistenceImage"})
    => /\ LastCall.raised \in {"TypeError", "ValueError"}
       /\ ValidHyperparameters => LastCall.raised = "TypeError"
       /\ DOMAIN self.attrs = {"effective_weight_function_"}

\* The fit of PersistenceImage has raised TypeError on a valid batch with
\* valid hyperparameters and the weight function None.
C22_TypeErrorWitness ==
    /\ FitValidated({"PersistenceImage"})
    /\ ValidHyperparameters
    /\ self.params["weight_function"] = NoneValue
    /\ LastCall.raised = "TypeError"


\* The i-th call is a transform, and none of the calls before it is a fit
\* that returned.
NoFitReturnedBefore(i) ==
    /\ out[i].call = "transform"
    /\ \A j \in 1..(i - 1) : ~(out[j].call = "fit" /\ out[j].raised = "none")

\* The attributes of the estimator before its i-th call.
AttrsBefore(i) == IF i = 1 THEN NoAttrs ELSE out[i - 1].attrs

\* The i-th call failed with the not-fitted error before it validated its
\* input or handed a task to Parallel, and the estimator is unfitted after
\* it as it was before.
FailedAsNotFitted(i) ==
    /\ out[i].raised = "NotFittedError"
    /\ ~out[i].validated
    /\ ~out[i].dispatched
    /\ out[i].attrs = AttrsBefore(i)

NotFittedBeforeFit(kinds) ==
    (comp = "estimator" /\ self.kind \in kinds)
    => \A i \in 1..Len(out) : NoFitReturnedBefore(i) => FailedAsNotFitted(i)

\* C23: for each of the eight estimators and in any sequence of calls, a
\* transform that no successful fit of the same object precedes fails with
\* the not-fitted error before the input is validated or a task is
\* dispatched, and leaves the estimator unfitted.
C23_NotFittedBeforeFit == NotFittedBeforeFit(Estimators)

\* The same for the estimators whose fit writes no attribute before its
\* last check.
C23_AllButTwo ==
    NotFittedBeforeFit(Estimators \ {"CubicalPersistence", "PersistenceImage"})

\* For the eight estimators, a transform that no call of fit precedes
\* fails as not fitted.
C23_BeforeAnyFit ==
    comp = "estimator"
    => \A i \in 1..Len(out) :
          (out[i].call = "transform"
              /\ \A j \in 1..(i - 1) : out[j].call = "transform")
          => FailedAsNotFitted(i)

\* A transform of CubicalPersistence was handed to Parallel after the only
\* fit had raised ValueError.
C23_TransformAfterFailedFit ==
    /\ comp = "estimator"
    /\ self.kind = "CubicalPersistence"
    /\ Len(out) = 2
    /\ out[1].call = "fit"
    /\ out[1].raised = "ValueError"
    /\ out[2].call = "transform"
    /\ out[2].dispatched

\* A transform of PersistenceImage validated its input after the only fit
\* had raised.
C23_ImageAfterFailedFit ==
    /\ comp = "estimator"
    /\ self.kind = "PersistenceImage"
    /\ Len(out) = 2
    /\ out[1].call = "fit"
    /\ out[1].raised # "none"
    /\ out[2].call = "transform"
    /\ out[2].validated


\* The last fit that returned before the i-th call.
LastFitBefore(i) ==
    CHOOSE j \in 1..(i - 1) :
        /\ out[j].call = "fit" /\ out[j].raised = "none"
        /\ \A l \in (j + 1)..(i - 1) :
              ~(out[l].call = "fit" /\ out[l].raised = "none")

\* dims holds the values of S once each, from the least to the greatest.
AscendingSetOf(dims, S) ==
    /\ {dims[k] : k \in 1..Len(dims)} = S
    /\ \A a, b \in 1..Len(dims) : a < b => DimLess(dims[a], dims[b])

FitNotPeriodic ==
    /\ comp = "estimator"
    /\ self.kind = "CubicalPersistence"
    /\ out # <<>>
    /\ LastCall.call = "fit"
    /\ LastCall.raised = "none"
    /\ \/ self.params["periodic_dimensions"] = NoneValue
       \/ \A i \in 1..Len(self.params["periodic_dimensions"].v) :
             self.params["periodic_dimensions"].v[i] = BoolValue(FALSE)

\* periodic_dimensions_ is an array of n booleans, all of them False.
AllFalseOfLength(periodic_dimensions_, n) ==
    /\ periodic_dimensions_.type = "np.ndarray"
    /\ Len(periodic_dimensions_.v) = n
    /\ \A i \in 1..n : periodic_dimensions_.v[i] = BoolValue(FALSE)

\* C28: after a fit of CubicalPersistence with periodic_dimensions None or
\* all False, periodic_dimensions_ is an all-False boolean array whose
\* length is the number of axes of one image, whatever the number of
\* images is.
C28_PeriodicDimensionsLength ==
    FitNotPeriodic
    => AllFalseOfLength(self.attrs["periodic_dimensions_"],
                        Len(LastCall.X.shape) - 1)

\* The length of periodic_dimensions_ is the number of images less one.
C28_LengthFollowsSamples ==
    FitNotPeriodic
    => AllFalseOfLength(self.attrs["periodic_dimensions_"],
                        LastCall.X.shape[1] - 1)

\* After a fit on one image of two axes periodic_dimensions_ is empty.
C28_EmptyForOneImage ==
    /\ FitNotPeriodic
    /\ LastCall.X.shape = <<1, 2, 2>>
    /\ self.attrs["periodic_dimensions_"] = ArrayValue(<<>>)

\* After a fit on three images of two axes periodic_dimensions_ has two
\* entries.
C28_TwoForThreeImages ==
    /\ FitNotPeriodic
    /\ LastCall.X.shape = <<3, 2, 2>>
    /\ Len(self.attrs["periodic_dimensions_"].v) = 2


(***************************************************************************)
(* Component "graph": one TransitionGraph and its calls on a batch X of    *)
(* shape (n_samples, n_time_steps, n_features).  A sample is the tuple of  *)
(* its rows, a sparse matrix is the dense array toarray() gives.           *)
(***************************************************************************)
\* A sample has at most MaxSteps rows, a row holds values of 1..NStates.
MaxSteps == 3

NStates == 3

\* The order np.unique puts the rows in: lexicographic.
RowLess(r, s) ==
    \E k \in 1..Len(r) : r[k] < s[k] /\ \A l \in 1..(k - 1) : r[l] = s[l]

\* The rows of S from the least to the greatest.
RECURSIVE SortedRows(_)
SortedRows(S) ==
    IF S = {} THEN <<>>
    ELSE LET m == CHOOSE r \in S : \A s \in S \ {r} : RowLess(r, s)
         IN <<m>> \o SortedRows(S \ {m})

\* np.unique(X, axis=0)
np_unique(X) == SortedRows({X[k] : k \in 1..Len(X)})

\* np.unique(X, axis=0, return_inverse=True)[1]: for every row of X its
\* place among the unique rows.
unique_inverse(X) ==
    LET unique == np_unique(X)
    IN Tuple([k \in 1..Len(X) |->
                 CHOOSE i \in 1..Len(unique) : unique[i] = X[k]])

\* sp.csr_matrix((data, (row, col))): as many rows as the greatest entry of
\* row, as many columns as the greatest of col; the data of equal
\* coordinates are summed.
RECURSIVE SumAt(_, _, _, _, _)
SumAt(data, row, col, i, j) ==
    IF data = <<>> THEN 0
    ELSE (IF row[1] = i /\ col[1] = j THEN data[1] ELSE 0)
         + SumAt(Tail(data), Tail(row), Tail(col), i, j)

Greatest(indices) ==
    CHOOSE m \in {indices[k] : k \in 1..Len(indices)} :
        \A k \in 1..Len(indices) : indices[k] <= m

csr_matrix(data, row, col) ==
    Tuple([i \in 1..Greatest(row) |->
              Tuple([j \in 1..Greatest(col) |-> SumAt(data, row, col, i, j)])])

\* np.full(n, value)
np_full(n, value) == Tuple([k \in 1..n |-> value])

\* The matrix with its diagonal left as it is.
setdiag_kept(A, value) == A

\* sp.csr_matrix.setdiag(A, value)
setdiag(A, value) ==
    Tuple([i \in 1..Len(A) |->
              Tuple([j \in 1..Len(A[i]) |->
                        IF i = j THEN value ELSE A[i][j]])])

\* _make_adjacency_matrix(X) for a sample X of two rows or more.
_make_adjacency_matrix(X) ==
    LET indices == unique_inverse(X)
        n_indices == 2 * (Len(indices) - 1)
        first == SubSeq(indices, 1, Len(indices) - 1)
        second == SubSeq(indices, 2, Len(indices))
        A == csr_matrix(np_full(n_indices, 1), first \o second,
                        second \o first)
    IN setdiag(A, 0)

\* TransitionGraph.transform(X): what it raises and returns.
GraphTransformed(est, X) ==
    IF ~check_is_fitted(est.attrs, Names({"_is_fitted"}))
    THEN [raised |-> "NotFittedError", value |-> None]
    ELSE [raised |-> "none",
          value |-> Tuple([i \in 1..Len(X) |-> _make_adjacency_matrix(X[i])])]

\* The arguments: batches of one or two samples of one feature, each of
\* the same number of rows, two at least.
GraphRows == {<<v>> : v \in 1..NStates}

GraphBatches ==
    UNION {[1..n_samples -> [1..n_time_steps -> GraphRows]] :
              n_samples \in 1..2, n_time_steps \in 2..MaxSteps}

InitGraph ==
    /\ comp = "graph"
    /\ pc = "idle"
    /\ self = [kind |-> "TransitionGraph", params |-> <<>>, attrs |-> NoAttrs]
    /\ \E X \in GraphBatches : X0 = X
    /\ out = None
    /\ heap = <<>> /\ Xref = 0 /\ ret = None
    /\ diagrams = None /\ base = None /\ args = None /\ pool = None

\* est.fit(X)
GraphFit ==
    /\ comp = "graph"
    /\ pc = "idle"
    /\ "_is_fitted" \notin DOMAIN self.attrs
    /\ self' = [self EXCEPT !.attrs = TransitionGraphFit(self.attrs).attrs]
    /\ UNCHANGED <<comp, pc, heap, Xref, X0, ret, diagrams, base, out, args,
                   pool>>

\* est.transform(X)
GraphTransform ==
    /\ comp = "graph"
    /\ pc = "idle"
    /\ out' = GraphTransformed(self, X0)
    /\ pc' = "ended"
    /\ UNCHANGED <<comp, heap, Xref, X0, ret, diagrams, base, self, args,
                   pool>>

NextGraph ==
    \/ GraphFit
    \/ GraphTransform

SpecGraph == InitGraph /\ [][NextGraph]_vars

(***************************************************************************)
(* Claims about the transition graphs.                                     *)
(***************************************************************************)
\* A transform of the fitted TransitionGraph has returned.
GraphReturned == comp = "graph" /\ pc = "ended" /\ out.raised = "none"

\* Row s immediately follows row r somewhere in the sample.
Follows(X, r, s) == \E k \in 1..(Len(X) - 1) : X[k] = r /\ X[k + 1] = s

\* The distinct rows of the sample.
States(X) == {X[k] : k \in 1..Len(X)}

\* C26: for a sample of two rows or more the adjacency matrix is indexed
\* by the distinct rows of the sample, is symmetric, has a zero diagonal,
\* and has a non-zero entry between two distinct states exactly when one of
\* them immediately follows the other somewhere in the sample.
C26_AdjacencyOfTransitions ==
    GraphReturned
    => \A n \in 1..Len(X0) :
          LET X == X0[n]
              A == out.value[n]
              unique == np_unique(X)
          IN /\ Len(A) = Cardinality(States(X))
             /\ \A i \in 1..Len(A) :
                   /\ Len(A[i]) = Len(A)
                   /\ A[i][i] = 0
                   /\ \A j \in 1..Len(A) :
                         /\ A[i][j] = A[j][i]
                         /\ i # j
                            => (A[i][j] # 0
                                <=> \/ Follows(X, unique[i], unique[j])
                                    \/ Follows(X, unique[j], unique[i]))

\* The matrix of a sample in which a state follows itself and another
\* state follows it.
C26_Witness ==
    /\ GraphReturned
    /\ X0[1] = << <<2>>, <<2>>, <<1>> >>
    /\ out.value[1] = << <<0, 1>>, <<1, 0>> >>

\* C27: transform returns boolean adjacency matrices: every entry is 0 or
\* 1, also when a transition repeats or occurs in both directions.
C27_EntriesAreBoolean ==
    GraphReturned
    => \A n \in 1..Len(out.value) :
          \A i, j \in 1..Len(out.value[n]) : out.value[n][i][j] \in {0, 1}

\* Every entry is the number of times the one state follows the other, in
\* either direction, and 0 on the diagonal.
C27_EntriesCountTransitions ==
    GraphReturned
    => \A n \in 1..Len(out.value) :
          LET X == X0[n]
              unique == np_unique(X)
          IN \A i, j \in 1..Len(out.value[n]) :
                out.value[n][i][j]
                   = IF i = j THEN 0
                     ELSE Cardinality({k \in 1..(Len(X) - 1) :
                              \/ X[k] = unique[i] /\ X[k + 1] = unique[j]
                              \/ X[k] = unique[j] /\ X[k + 1] = unique[i]})

\* The matrix of a sample that goes from a state to another and back holds
\* the entry 2.
C27_BackAndForth ==
    /\ GraphReturned
    /\ X0[1] = << <<1>>, <<2>>, <<1>> >>
    /\ out.value[1] = << <<0, 2>>, <<2, 0>> >>


(***************************************************************************)
(* Claims about the test np.array_equal(diagrams_1, diagrams_2).           *)
(***************************************************************************)
\* A pairwise recipe of one of the metrics has reached its test.
TestReached(metrics) ==
    /\ comp = "recipes"
    /\ pc = "done"
    /\ out.recipe = "distances"
    /\ out.metric \in metrics
    /\ out.path # "none"

\* The two batches hold equal values as they were passed in.
EqualAsPassed == array_equal(args.diagrams_1, args.diagrams_2)

ShortCircuitIffEqualAsPassed(metrics) ==
    TestReached(metrics) => (out.path = "pdist" <=> EqualAsPassed)

\* C30: every pairwise recipe of a vectorization takes its short-circuit
\* branch exactly when the two batches hold equal values as they were
\* passed in: the test sees the values of the time of the call, not values
\* the recipe has clamped, re-parametrised or quantized in place.
C30_ShortCircuitIffEqualAsPassed ==
    ShortCircuitIffEqualAsPassed({"betti", "landscape", "heat",
                                  "persistence_image"})

\* The same for the recipes that write to no batch.
C30_CurveRecipes == ShortCircuitIffEqualAsPassed({"betti", "landscape"})

\* heat_distances compares the first batch as heats has clamped it with
\* the second batch as it was passed in.
C30_HeatTestsClampedValues ==
    TestReached({"heat"})
    => (out.path = "pdist"
        <=> \/ args.d1 = args.d2
            \/ array_equal(HeatClipped(args.diagrams_1, out.params.sampling),
                           args.diagrams_2))

\* heat_distances took the path of cdist for two arrays of equal values.
C30_EqualButCdist ==
    /\ TestReached({"heat"})
    /\ EqualAsPassed
    /\ args.d1 # args.d2
    /\ out.path = "cdist"

\* persistence_image_distances ends before its test.
C30_ImageRecipeNeverTests ==
    (comp = "recipes" /\ pc = "done" /\ out.recipe = "distances"
        /\ out.metric = "persistence_image")
    => out.path = "none" /\ out.raised = "IndexError"


(***************************************************************************)
(* Component "grids": heats, persistence_images and the two recipes built  *)
(* on them, followed statement by statement on a store that holds, beside  *)
(* the batches, the arrays sampling, step_size and weights of the caller.  *)
(* A call is given the addresses of its arguments; an array a statement    *)
(* creates gets the next free address.                                     *)
(***************************************************************************)
\* The store after np.zeros, np.array, np.copy or an arithmetic expression
\* has created the array.
Allocated(h, array) == h \o <<array>>

\* heats(diagrams, sampling, step_size, sigma): the store it leaves.  The
\* two masked assignments write to the argument diagrams; the pixels and
\* the rasters are new arrays.
heats_in(h, a, sigma) ==
    LET sampling == h[a.sampling]
        h1 == [h EXCEPT ![a.diagrams] = HeatClipped(h[a.diagrams], sampling)]
        h2 == Allocated(h1, HeatPixels(h1[a.diagrams], sampling,
                                       h1[a.step_size]))
        h3 == Allocated(h2, Tuple([i \in 1..Len(h2[Len(h2)]) |->
                  _heat(Zeros(Len(sampling)), h2[Len(h2)][i], sigma)]))
    IN Allocated(h3, HeatsFrom(h3[Len(h3)]))

\* persistence_images_ and weights after weights was divided by its
\* greatest value in place (an array of integers) and persistence_images_
\* multiplied by the quotient.
ImulNormalising(h, images_, weights) ==
    LET w == h[weights]
        normalised == Tuple([c \in 1..Len(w) |-> NpDivide(w[c], NpMax(w))])
    IN [h EXCEPT
           ![weights] = Tuple([c \in 1..Len(w) |-> w[c] \div NpMax(w)]),
           ![images_] = Tuple([i \in 1..Len(h[images_]) |->
               Tuple([r \in 1..Len(h[images_][i]) |->
                   Tuple([c \in 1..Len(h[images_][i]) |->
                       FracMul(h[images_][i][r][c], normalised[c])])])])]

\* persistence_images_ *= weights / np.max(weights): the quotient is a new
\* array, the product is written to persistence_images_.
Imul(h, images_, weights) ==
    LET w == h[weights]
        h1 == Allocated(h, Tuple([c \in 1..Len(w) |->
                                     NpDivide(w[c], NpMax(w))]))
        quotient == h1[Len(h1)]
    IN [h1 EXCEPT
           ![images_] = Tuple([i \in 1..Len(h[images_]) |->
               Tuple([r \in 1..Len(h[images_][i]) |->
                   Tuple([c \in 1..Len(h[images_][i]) |->
                       FracMul(h[images_][i][r][c], quotient[c])])])])]

\* persistence_images(diagrams, sampling, step_size, weights, sigma): the
\* store it leaves.  The statements of the loop over the axes write to the
\* argument diagrams.
persistence_images_in(h, a, sigma) ==
    LET sampling == h[a.sampling]
        h1 == [h EXCEPT ![a.diagrams] =
                  ImagePixels(h[a.diagrams], sampling, h[a.step_size])]
        h2 == Allocated(h1, Tuple([i \in 1..h1[a.diagrams].shape[1] |->
                  _heat(Zeros(Len(sampling)), h1[a.diagrams].data[i],
                        sigma)]))
        h3 == Imul(h2, Len(h2), a.weights)
    IN Allocated(h3, Tuple([i \in 1..Len(h3[Len(h2)]) |->
                               Rot90(h3[Len(h2)][i])]))

\* The addresses a recipe gives to the vectorizer for one of its batches.
For(a, batch) ==
    [diagrams |-> batch, sampling |-> a.sampling, step_size |-> a.step_size,
     weights |-> a.weights]

\* heat_distances: the store it leaves.
heat_distances_in(h, a, sigma) ==
    LET h1 == heats_in(h, For(a, a.diagrams_1), sigma)
    IN IF array_equal(h1[a.diagrams_1], h1[a.diagrams_2]) THEN h1
       ELSE heats_in(h1, For(a, a.diagrams_2), sigma)

\* persistence_image_distances: the store it leaves.  sampling_ is a copy,
\* weights a new array; the first call of persistence_images raises at
\* sampling[0, axis], sampling_ being of rank 1, after it has
\* re-parametrised its batch.
persistence_image_distances_in(h, a, sigma) ==
    LET h1 == Allocated(h, Flattened(h[a.sampling]))
        sampling_ == h1[Len(h1)]
        h2 == Allocated(h1, Tuple([c \in 1..Len(sampling_.data) |->
                                      sampling_.data[c] - sampling_.data[1]]))
    IN [h2 EXCEPT ![a.diagrams_1] = Reparametrised(h2[a.diagrams_1])]

\* The arguments: a batch and an all-padding batch, a grid, its step and,
\* for persistence_images, a weight profile.
GridArguments ==
    {<<sampling, StepOf(sampling, 1), <<>> >> : sampling \in HeatSamplings}
        \cup UNION {{<<sampling, <<StepOf(sampling, 1), StepOf(sampling, 2)>>,
                       weights>> : weights \in WeightProfiles(sampling)} :
                       sampling \in ImageSamplings}

InitGrids ==
    /\ comp = "grids"
    /\ pc = "args"
    /\ \E X \in SubdiagramBatches, g \in GridArguments, d2 \in 1..2 :
          /\ heap = <<X, PaddingBatch(1), g[1], g[2], g[3]>>
          /\ X0 = heap
          /\ args = [diagrams_1 |-> 1, diagrams_2 |-> d2, sampling |-> 3,
                     step_size |-> 4, weights |-> 5]
    /\ Xref = 1
    /\ ret = None
    /\ diagrams = None /\ base = None /\ out = None /\ self = None
    /\ pool = None

\* A call is made on the grid of heats, which has no weights, or on the
\* grid of persistence_images.
GridHeats ==
    /\ comp = "grids"
    /\ pc = "args"
    /\ heap[args.weights] = <<>>
    /\ \E sigma \in RecipeSigmas :
          heap' = heats_in(heap, For(args, args.diagrams_1), sigma)
    /\ out' = [op |-> "heats"]
    /\ pc' = "done"
    /\ UNCHANGED <<comp, Xref, X0, ret, diagrams, base, self, args, pool>>

GridPersistenceImages ==
    /\ comp = "grids"
    /\ pc = "args"
    /\ heap[args.weights] # <<>>
    /\ \E sigma \in RecipeSigmas :
          heap' = persistence_images_in(heap, For(args, args.diagrams_1),
                                        sigma)
    /\ out' = [op |-> "persistence_images"]
    /\ pc' = "done"
    /\ UNCHANGED <<comp, Xref, X0, ret, diagrams, base, self, args, pool>>

GridHeatDistances ==
    /\ comp = "grids"
    /\ pc = "args"
    /\ heap[args.weights] = <<>>
    /\ \E sigma \in RecipeSigmas :
          heap' = heat_distances_in(heap, args, sigma)
    /\ out' = [op |-> "heat_distances"]
    /\ pc' = "done"
    /\ UNCHANGED <<comp, Xref, X0, ret, diagrams, base, self, args, pool>>

GridPersistenceImageDistances ==
    /\ comp = "grids"
    /\ pc = "args"
    /\ heap[args.weights] # <<>>
    /\ \E sigma \in RecipeSigmas :
          heap' = persistence_image_distances_in(heap, args, sigma)
    /\ out' = [op |-> "persistence_image_distances"]
    /\ pc' = "done"
    /\ UNCHANGED <<comp, Xref, X0, ret, diagrams, base, self, args, pool>>

NextGrids ==
    \/ GridHeats
    \/ GridPersistenceImages
    \/ GridHeatDistances
    \/ GridPersistenceImageDistances

SpecGrids == InitGrids /\ [][NextGrids]_vars

(***************************************************************************)
(* Claims about the grids.                                                 *)
(***************************************************************************)
\* C25: no vectorizer and no recipe writes to the sampling grid, to the
\* step size or to the weight profile it is given: after the call the three
\* hold the values they held before it.
C25_GridsLeftAsGiven ==
    (comp = "grids" /\ pc = "done")
    => /\ heap[args.sampling] = X0[args.sampling]
       /\ heap[args.step_size] = X0[args.step_size]
       /\ heap[args.weights] = X0[args.weights]

\* A call of persistence_images has ended that wrote to its batch, with a
\* weight profile whose greatest value is not 1.
C25_Witness ==
    /\ comp = "grids"
    /\ pc = "done"
    /\ out.op = "persistence_images"
    /\ heap[args.diagrams_1] # X0[args.diagrams_1]
    /\ NpMax(heap[args.weights]) > 1

\* A call of heat_distances has ended that wrote to both of its batches.
C25_RecipeWitness ==
    /\ comp = "grids"
    /\ pc = "done"
    /\ out.op = "heat_distances"
    /\ heap[1] # X0[1]
    /\ heap[2] # X0[2]

(***************************************************************************)
(* Claims about the rasters of heats before the rotation.                  *)
(***************************************************************************)
\* The raster np.rot90(k=1) was applied to.
UnRot90(m) ==
    [a \in 1..Len(m) |-> [b \in 1..Len(m) |-> m[Len(m) + 1 - b][a]]]

\* A call of heats has ended: the last array of the store is the one it
\* returned, the pixels of the points were created two arrays before.
HeatsEnded == comp = "grids" /\ pc = "done" /\ out.op = "heats"

\* The pixels of the points of sample i of the call.
PixelsOf(i) == heap[Len(heap) - 2][i]

\* The points of sample i whose birth and death fall in different pixels.
OffDiagonalPixels(i) == SelectSeq(PixelsOf(i), LAMBDA px : px[1] # px[2])

\* C29: before the final rotation every raster H of heats is
\* antisymmetric, H[r][c] = -H[c][r], with a zero diagonal, so that a point
\* whose birth and death fall in the same pixel, as every padding point
\* does, contributes nothing to it.
C29_RasterAntisymmetric ==
    HeatsEnded
    => \A i \in 1..heap[Len(heap)].shape[1] :
          LET H == UnRot90(heap[Len(heap)].data[i])
              n == Len(heap[args.sampling])
          IN /\ \A r, c \in 1..n : FracAdd(H[r][c], H[c][r]) = Zero
             /\ \A r \in 1..n : H[r][r] = Zero
             /\ \A r, c \in 1..n :
                   H[r][c] = MinusTranspose(
                       _sample_image(Zeros(n), OffDiagonalPixels(i)))[r][c]

\* A call of heats on a batch a sample of which holds a point of the
\* diagonal, a point of coinciding pixels, and has a raster that is not
\* zero.
C29_Witness ==
    /\ HeatsEnded
    /\ \E i \in 1..heap[Len(heap)].shape[1] :
          /\ \E p \in 1..Len(PixelsOf(i)) :
                /\ X0[args.diagrams_1].data[i][p][1]
                      = X0[args.diagrams_1].data[i][p][2]
                /\ PixelsOf(i)[p][1] = PixelsOf(i)[p][2]
          /\ \E r, c \in 1..Len(heap[args.sampling]) :
                UnRot90(heap[Len(heap)].data[i])[r][c] # Zero

====
